---- MODULE Spec2Model ----
(***************************************************************************)
(* State-machine model of the pricetag capture core:                       *)
(*   - lib/frameAnalyzer.ts   : tag-region selection, stability tracker,   *)
(*                              frame buffer, auto-capture readiness       *)
(*   - hooks/useMultiFrameOcr.ts : multi-frame consensus engine            *)
(*   - components/SmartCamera.tsx : doCapture                              *)
(*   - lib/frameAnalyzer.ts   : text extraction, pixel analysis            *)
(*   - app/page.tsx           : handleBurstCapture                         *)
(*   - hooks/useBackgroundSync.ts : performSync                            *)
(*                                                                         *)
(* Number representation (the source uses IEEE doubles, the model uses     *)
(* integers):                                                              *)
(*   blurScore           hundredths            (0.15 -> 15)                *)
(*   stability           1/StabilityUnit       (0.50 -> StabilityUnit/2)   *)
(*   area/aspect ratios  compared by cross-multiplication, exactly         *)
(*   rectangle score     rational num / (20*W*H*den), compared exactly     *)
(*   extraction confidence  hundredths; price  cents; time  milliseconds   *)
(***************************************************************************)
EXTENDS Integers, Sequences, FiniteSets, TLC

VARIABLES
  \* ---- lib/frameAnalyzer.ts module state
  stabilityBuffer,   \* let stabilityBuffer: TagBounds[]
  frameBuffer,       \* let frameBuffer: BufferedFrame[]
  \* ---- observation of the last analyzer call
  lastAnalysis,      \* FrameAnalysis returned by the last analyzeFrame, or NULL
  prevTagDetected,   \* tagDetected of the call before it: "yes", "no", "none"
  accepted,          \* regions accepted since the buffer was last emptied
                     \* (the last STABILITY_BUFFER_SIZE + 1 of them)
  autoCapture,       \* shouldAutoCapture(lastAnalysis)
  stage,             \* last findTagBounds call made on its own: its inputs,
                     \* bestRect after the rectangle loop, and its result
  vote,              \* last calculateConsensus call made on its own: its
                     \* frames, its result, and the result of evaluating it
                     \* once more on the same frames
  ocr,               \* last call of an extraction function made on its own:
                     \* the function, its input and what it returned
  picked,            \* last getBestFrame or getBestFrames call made on
                     \* its own: the buffer before the call and what the
                     \* call returned
  burst,             \* last handleBurstCapture call made on its own: the
                     \* OCR results of its frames and the page state and
                     \* scan result it ended with
  drawn,             \* canvases analyzeFrame was called on from their
                     \* pixels: the last one, and what each one gave
  \* ---- history of the frame buffer
  nextFrameId,       \* identity of the next cloned canvas
  addedSinceClear,   \* frames passed to addToFrameBuffer since the last clear
  \* ---- hooks/useMultiFrameOcr.ts state
  framesRef,         \* framesRef.current
  resultsRef,        \* resultsRef.current
  isProcessing, frameCount, hasResult,   \* React state of the hook
  calls,             \* addFrame calls suspended at `await extractPriceTag`;
                     \* stale marks the ones made before the last reset()
  nextCallId,        \* identity of the next addFrame call
  completed,         \* successful extractions appended since the last reset
  lastReturn,        \* value returned by the last finished addFrame
  now,               \* the latest reading of Date.now()
  \* ---- components/SmartCamera.tsx state
  isCapturing,       \* React state isCapturing
  captureMode,       \* React state captureMode
  autoCaptureReady,  \* React state autoCaptureReady
  countdown,         \* pending countdown timer: the analysis it was started with
  disabled,          \* prop disabled (page.tsx: state !== 'camera')
  captures,          \* doCapture invocations suspended at an await
  finished,          \* record of the doCapture invocation that finished last
  nextCaptureId,
  \* ---- hooks/useBackgroundSync.ts state
  syncInProgressRef, \* syncInProgressRef.current
  lastSyncRef,       \* lastSyncRef.current
  syncStatus,        \* React state syncStatus
  lastSyncResult,    \* React state lastSyncResult
  syncCalls,         \* performSync calls suspended at an await
  idleTimers,        \* pending `setTimeout(() => setSyncStatus('idle'), 3000)`
  syncClock,         \* the latest reading of Date.now() in performSync
  syncReturned,      \* what the performSync call that came back last saw at
                     \* its entry and returned
  nextSyncId,        \* identity of the next performSync call
  \* ---- which operation produced the current state
  lastOp

vars == <<stabilityBuffer, frameBuffer, lastAnalysis, prevTagDetected, accepted,
          autoCapture, stage, vote, ocr, picked, burst, drawn,
          nextFrameId, addedSinceClear,
          framesRef, resultsRef, isProcessing, frameCount, hasResult, calls,
          nextCallId, completed, lastReturn, now,
          isCapturing, captureMode, autoCaptureReady, countdown, disabled,
          captures, finished, nextCaptureId,
          syncInProgressRef, lastSyncRef, syncStatus, lastSyncResult, syncCalls,
          idleTimers, syncClock, syncReturned, nextSyncId, lastOp>>

analyzerVars == <<stabilityBuffer, lastAnalysis, prevTagDetected, accepted, autoCapture>>
bufferVars   == <<frameBuffer, nextFrameId, addedSinceClear>>
consensusVars == <<framesRef, resultsRef, isProcessing, frameCount, hasResult,
                   calls, nextCallId, completed, lastReturn, now>>
cameraVars   == <<isCapturing, captureMode, autoCaptureReady, countdown, disabled,
                  captures, finished, nextCaptureId>>
syncVars     == <<syncInProgressRef, lastSyncRef, syncStatus, lastSyncResult,
                  syncCalls, idleTimers, syncClock, syncReturned, nextSyncId>>
stageVars    == <<stage, vote, ocr, picked, burst, drawn>>

\* null, and a non-null value of a nullable field
NULL == [null |-> TRUE]
Some(v) == [some |-> v]

-----------------------------------------------------------------------------
(* Program constants                                                       *)

BLUR_THRESHOLD == 15            \* 0.15, hundredths
MIN_TAG_AREA_RATIO == 3         \* 0.03, hundredths
MAX_TAG_AREA_RATIO == 90        \* 0.90, hundredths
ASPECT_RATIO_MIN == 1           \* 1.0
ASPECT_RATIO_MAX == 4           \* 4.0
STABILITY_BUFFER_SIZE == 3
FRAME_BUFFER_SIZE == 10
MAX_FRAMES == 5
FRAME_TIMEOUT == 3000
MIN_CONSENSUS == 60             \* 0.6, hundredths
SYNC_COOLDOWN == 30000          \* ms

StabilityUnit == 6 * 1000       \* stability 1.0
STABILITY_THRESHOLD == StabilityUnit \div 2     \* 0.50

-----------------------------------------------------------------------------
(* Bounds of the model                                                     *)

FrameWidth == 100        \* canvas.width of the analysis canvas
FrameHeight == 50        \* canvas.height of the analysis canvas
MaxCandidates == 2       \* rectangles produced by findRectangles per frame
MaxAnalyzerCandidates == 1   \* the same, when whole frames are analyzed
MaxFrameAdds == 12       \* addToFrameBuffer calls in one behaviour
MaxCameraFrames == 5     \* frames sampled by the camera loop in one behaviour
MaxCaptures == 2         \* doCapture invocations in one behaviour
MaxCalls == 6            \* addFrame calls in one behaviour
MaxPending == 2          \* addFrame calls awaiting recognition at once
MaxTicks == 2            \* clock advances of TickMs in one behaviour
MaxBestFrameAdds == 4    \* frames buffered before getBestFrame is asked
MaxBurstCount == 3       \* largest count getBestFrames is asked for
MaxTextTokens == 2       \* tokens in a text handed to extractItemNumber or extractPrice
MaxVoteFrames == 3       \* frames in a list handed to calculateConsensus alone
MaxBurstFrames == 3      \* blobs in a burst handed to handleBurstCapture
MaxPixelFrames == 4      \* analyzeFrame calls made on the pixels of a canvas
MaxSyncCalls == 4        \* performSync calls
MaxSyncTicks == 3        \* readings of Date.now() after the first, half a cooldown apart
TickMs == FRAME_TIMEOUT \div 2

-----------------------------------------------------------------------------
(* Arithmetic helpers                                                      *)

Abs(n) == IF n < 0 THEN -n ELSE n
Min(a, b) == IF a < b THEN a ELSE b
Max(a, b) == IF a > b THEN a ELSE b

RECURSIVE SqrtSearch(_, _, _)
SqrtSearch(n, lo, hi) ==
  IF lo >= hi THEN lo
  ELSE LET mid == (lo + hi + 1) \div 2
       IN IF mid * mid <= n THEN SqrtSearch(n, mid, hi)
                            ELSE SqrtSearch(n, lo, mid - 1)

MinOf(S) == CHOOSE v \in S : \A w \in S : v <= w

\* Math.round(num / den) for num >= 0
RoundHalfUp(num, den) == (2 * num + den) \div (2 * den)

\* Math.sqrt, rounded down to an integer
Isqrt(n) == SqrtSearch(n, 0, 46340)

RECURSIVE SumSeq(_)
SumSeq(s) == IF s = <<>> THEN 0 ELSE Head(s) + SumSeq(Tail(s))

\* the last n elements of s : Array.prototype.slice(-n)
LastN(s, n) == IF Len(s) <= n THEN s ELSE SubSeq(s, Len(s) - n + 1, Len(s))

-----------------------------------------------------------------------------
(* lib/frameAnalyzer.ts : tag-region selection (rectangle stage)           *)

Rect(x, y, w, h) ==
  [x |-> x, y |-> y, width |-> w, height |-> h, confidence |-> [num |-> 0, den |-> 1]]

\* areaRatio < MIN_TAG_AREA_RATIO || areaRatio > MAX_TAG_AREA_RATIO
AreaRejected(rect, width, height) ==
  LET area == rect.width * rect.height
      frameArea == width * height
  IN \/ 100 * area < MIN_TAG_AREA_RATIO * frameArea
     \/ 100 * area > MAX_TAG_AREA_RATIO * frameArea

\* variant: the upper aspect bound is not enforced
AspectRejected_NoMax(rect) ==
  rect.width < ASPECT_RATIO_MIN * rect.height

\* aspectRatio < ASPECT_RATIO_MIN || aspectRatio > ASPECT_RATIO_MAX
AspectRejected(rect) ==
  \/ rect.width < ASPECT_RATIO_MIN * rect.height
  \/ rect.width > ASPECT_RATIO_MAX * rect.height

\* score = centerScore*0.3 + areaScore*0.4 + aspectScore*0.3, as the exact
\* numerator of the fraction  ScoreNum / (20 * width * height * rect.height):
\*   centerScore = (2WH - a*H - b*W) / (2WH),  a = |2x + w - W|, b = |2y + h - H|
\*   areaScore   = (WH - |5*area - WH|) / WH          (idealAreaRatio = 0.2)
\*   aspectScore = (2h - |w - 2h|) / (2h)             (idealAspect = 2.0)
ScoreNum(rect, width, height) ==
  LET a == Abs(2 * rect.x + rect.width - width)
      b == Abs(2 * rect.y + rect.height - height)
      frameArea == width * height
      area == rect.width * rect.height
  IN   3 * rect.height * (2 * frameArea - a * height - b * width)
     + 8 * rect.height * (frameArea - Abs(5 * area - frameArea))
     + 3 * frameArea * (2 * rect.height - Abs(rect.width - 2 * rect.height))

ScoreDen(rect, width, height) == 20 * width * height * rect.height

\* score > bestScore ; best = NULL stands for bestScore = 0
ScoreBeats(rect, best, width, height) ==
  IF best = NULL
  THEN ScoreNum(rect, width, height) > 0
  ELSE ScoreNum(rect, width, height) * best.height
         > ScoreNum(best, width, height) * rect.height

\* the for-loop of findTagBounds over rectangles[i..], bestRect = best
RECURSIVE BestRectFrom(_, _, _, _, _)
BestRectFrom(rectangles, i, best, width, height) ==
  IF i > Len(rectangles) THEN best
  ELSE LET rect == rectangles[i]
       IN IF AreaRejected(rect, width, height) \/ AspectRejected(rect)
          THEN BestRectFrom(rectangles, i + 1, best, width, height)
          ELSE IF ScoreBeats(rect, best, width, height)
               THEN BestRectFrom(rectangles, i + 1, rect, width, height)
               ELSE BestRectFrom(rectangles, i + 1, best, width, height)

\* bestRect when the for-loop of findTagBounds is over
SelectRectangle(rectangles, width, height) ==
  LET best == BestRectFrom(rectangles, 1, NULL, width, height)
  IN IF best = NULL
     THEN NULL
     ELSE [best EXCEPT !.confidence = [num |-> ScoreNum(best, width, height),
                                       den |-> ScoreDen(best, width, height)]]

\* findTagBounds, given the output of findRectangles and the value that
\* findTagByEdgeDensity returns for the same edge map
findTagBounds(rectangles, densityResult, width, height) ==
  LET bestRect == SelectRectangle(rectangles, width, height)
  IN IF bestRect = NULL THEN densityResult ELSE bestRect

-----------------------------------------------------------------------------
(* lib/frameAnalyzer.ts : tag-region selection (edge-density fallback)     *)

gridSize == 10

\* the grid cell visited k-th by the scan `for gy ... for gx ...`
ScanCell(k) == [x |-> k % gridSize, y |-> k \div gridSize]

\* the four cells pushed on the queue for a cell
Neighbours(c) ==
  {[x |-> c.x - 1, y |-> c.y], [x |-> c.x + 1, y |-> c.y],
   [x |-> c.x, y |-> c.y - 1], [x |-> c.x, y |-> c.y + 1]}

\* cells the BFS marks visited, starting from the cells in comp; dense is the
\* set of cells whose density is at least the threshold
RECURSIVE FloodFill(_, _)
FloodFill(dense, comp) ==
  LET grown == comp \cup {c \in dense : Neighbours(c) \cap comp # {}}
  IN IF grown = comp THEN comp ELSE FloodFill(dense, grown)

\* region and size when the BFS from a seed cell is over
RegionOf(comp) ==
  LET xs == {c.x : c \in comp}
      ys == {c.y : c \in comp}
  IN [minX |-> CHOOSE v \in xs : \A w \in xs : v <= w,
      minY |-> CHOOSE v \in ys : \A w \in ys : v <= w,
      maxX |-> CHOOSE v \in xs : \A w \in xs : v >= w,
      maxY |-> CHOOSE v \in ys : \A w \in ys : v >= w,
      size |-> Cardinality(comp)]

\* the scan over the grid from the k-th cell on, taken up at the next cell
\* that is dense and not yet visited; best is bestRegion with maxSize, or
\* NULL while maxSize = 0
RECURSIVE LargestRegionFrom(_, _, _, _)
LargestRegionFrom(dense, k, visited, best) ==
  LET seeds == {j \in k..(gridSize * gridSize - 1) : ScanCell(j) \in dense \ visited}
  IN IF seeds = {} THEN best
     ELSE LET first == CHOOSE j \in seeds : \A i \in seeds : j <= i
              comp == FloodFill(dense, {ScanCell(first)})
              region == RegionOf(comp)
              better == best = NULL \/ region.size > best.size
          IN LargestRegionFrom(dense, first + 1, visited \cup comp,
                               IF better THEN region ELSE best)

\* the bounds findTagByEdgeDensity returns, in units of 1/scale pixel
\* (cellW = width / 10, cellH = height / 10, padding = cellW / 2 = width / 20)
PaddedBounds(region, width, height) ==
  [x |-> Max(0, 2 * region.minX * width - width),
   y |-> Max(0, 2 * region.minY * height - width),
   width |-> Min(20 * width,
                 2 * (region.maxX - region.minX + 1) * width + 2 * width),
   height |-> Min(20 * height,
                  2 * (region.maxY - region.minY + 1) * height + 2 * width),
   confidence |-> [num |-> region.size, den |-> gridSize * gridSize],
   scale |-> 20]

\* the regions the scan from the k-th cell on runs a BFS for, in scan order
RECURSIVE ScannedRegions(_, _, _)
ScannedRegions(dense, k, visited) ==
  LET seeds == {j \in k..(gridSize * gridSize - 1) : ScanCell(j) \in dense \ visited}
      Scan(first) ==
        LET Next(comp) ==
              <<comp>> \o ScannedRegions(dense, first + 1, visited \cup comp)
        IN Next(FloodFill(dense, {ScanCell(first)}))
  IN IF seeds = {} THEN <<>> ELSE Scan(MinOf(seeds))

\* variant: a region of 4 cells is too small
findTagByEdgeDensity_FiveCells(dense, width, height) ==
  LET bestRegion == LargestRegionFrom(dense, 0, {}, NULL)
  IN IF bestRegion = NULL \/ bestRegion.size <= 4
     THEN NULL
     ELSE PaddedBounds(bestRegion, width, height)

\* findTagByEdgeDensity, given the cells of the grid with density >= 0.1
findTagByEdgeDensity(dense, width, height) ==
  LET bestRegion == LargestRegionFrom(dense, 0, {}, NULL)
  IN IF bestRegion = NULL \/ bestRegion.size < 4
     THEN NULL
     ELSE PaddedBounds(bestRegion, width, height)

\* pixels per unit of the coordinates of a tagBounds value
ScaleOf(bounds) == IF "scale" \in DOMAIN bounds THEN bounds.scale ELSE 1

-----------------------------------------------------------------------------
(* lib/frameAnalyzer.ts : from the pixels of a frame to its tag region     *)
(* An image is [width, height, data]; data[i] is the [r, g, b] of pixel i, *)
(* i = y * width + x. An edge map is the set of the pixels set to 255.     *)

\* the value of 0 / 0: it is not a number, no comparison with it is true
NaN == -1

\* grayscale[i] = Math.round(0.299 * r + 0.587 * g + 0.114 * b)
toGrayscale(imageData) ==
  [i \in 0..(imageData.width * imageData.height - 1) |->
     RoundHalfUp(299 * imageData.data[i].r + 587 * imageData.data[i].g
                   + 114 * imageData.data[i].b, 1000)]

\* the Laplacian kernel at pixel idx
Laplacian(grayscale, width, idx) ==
  -4 * grayscale[idx] + grayscale[idx - 1] + grayscale[idx + 1]
    + grayscale[idx - width] + grayscale[idx + width]

\* sum of f over the pixels the loops `for y = 1 .. height - 2`,
\* `for x = 1 .. width - 2` visit, row by row
InteriorSum(f, width, height) ==
  SumSeq([y \in 1..(height - 2) |->
            SumSeq([x \in 1..(width - 2) |-> f[y * width + x]])])

\* Math.min(1, Math.sqrt(variance) / 50) in hundredths, rounded down; with
\* no interior pixel count is 0 and mean = 0 / 0
calculateBlurScore(grayscale, width, height) ==
  LET \* 4 * (sumSq / count - mean * mean) rounded down, with
      \* sum = a * count + b, without a product above 2^31
      Variance4(count, sumSq, a, b) ==
        4 * ((sumSq \div count) - a * a)
          + (4 * ((sumSq % count) * count - 2 * a * b * count - b * b)) \div (count * count)
      Normalized(count, sum, sumSq) ==
        IF count = 0 THEN NaN
        ELSE Min(100, Isqrt(Max(0, Variance4(count, sumSq, sum \div count, sum % count))))
      Sums(laplacian) ==
        Normalized(Max(0, width - 2) * Max(0, height - 2),
                   InteriorSum(laplacian, width, height),
                   InteriorSum([i \in DOMAIN laplacian |-> laplacian[i] * laplacian[i]],
                               width, height))
  IN Sums([i \in 0..(width * height - 1) |->
             IF /\ i % width \in 1..(width - 2)
                /\ i \div width \in 1..(height - 2)
             THEN Laplacian(grayscale, width, i) ELSE 0])

\* gx * gx + gy * gy of the Sobel kernels at pixel idx
SobelSquare(g, width, idx) ==
  LET Square(gx, gy) == gx * gx + gy * gy
  IN Square(- g[idx - width - 1] + g[idx - width + 1] - 2 * g[idx - 1]
              + 2 * g[idx + 1] - g[idx + width - 1] + g[idx + width + 1],
            - g[idx - width - 1] - 2 * g[idx - width] - g[idx - width + 1]
              + g[idx + width - 1] + 2 * g[idx + width] + g[idx + width + 1])

\* the pixels with edges[idx] = 255: `magnitude > 50`
detectEdges(grayscale, width, height) ==
  {idx \in 0..(width * height - 1) :
     /\ idx % width \in 1..(width - 2)
     /\ idx \div width \in 1..(height - 2)
     /\ SobelSquare(grayscale, width, idx) > 50 * 50}

\* the runs of edge pixels a scan over positions 0..n-1 pushes from
\* position k on, as <<first, last>>: a run is pushed when a pixel without
\* an edge follows it and it is longer than a tenth of n
RECURSIVE EdgeRuns(_, _, _)
EdgeRuns(onEdge, n, k) ==
  LET Ends(first, last) ==
        IF last >= n - 1 THEN <<>>
        ELSE IF 10 * (last - first + 1) > n
        THEN <<(<<first, last>>)>> \o EdgeRuns(onEdge, n, last + 1)
        ELSE EdgeRuns(onEdge, n, last + 1)
      Run(first) ==
        Ends(first, MinOf({j \in first..(n - 1) : j = n - 1 \/ ~onEdge[j + 1]}))
      From(starts) == IF starts = {} THEN <<>> ELSE Run(MinOf(starts))
  IN From({j \in k..(n - 1) : onEdge[j]})

\* the lines of the sampled rows y = 0, 5, 10, ... from row y on
RECURSIVE findHorizontalLines(_, _, _, _)
findHorizontalLines(edges, width, height, y) ==
  IF y >= height THEN <<>>
  ELSE LET Lines(runs) ==
             [i \in 1..Len(runs) |->
                [start |-> [x |-> runs[i][1], y |-> y],
                 end |-> [x |-> runs[i][2], y |-> y],
                 length |-> runs[i][2] - runs[i][1] + 1]]
       IN Lines(EdgeRuns([x \in 0..(width - 1) |-> (y * width + x) \in edges], width, 0))
            \o findHorizontalLines(edges, width, height, y + 5)

\* the lines of the sampled columns x = 0, 5, 10, ... from column x on
RECURSIVE findVerticalLines(_, _, _, _)
findVerticalLines(edges, width, height, x) ==
  IF x >= width THEN <<>>
  ELSE LET Lines(runs) ==
             [i \in 1..Len(runs) |->
                [start |-> [x |-> x, y |-> runs[i][1]],
                 end |-> [x |-> x, y |-> runs[i][2]],
                 length |-> runs[i][2] - runs[i][1] + 1]]
       IN Lines(EdgeRuns([y \in 0..(height - 1) |-> (y * width + x) \in edges], height, 0))
            \o findVerticalLines(edges, width, height, x + 5)

\* the rectangles findRectangles pushes, in the order of its four loops
findRectangles(horizontalLines, verticalLines, width, height) ==
  LET H == Len(horizontalLines)
      V == Len(verticalLines)
      tolerance == 20
      Pick(k) == [i |-> 1 + (k \div (H * V * V)),
                  j |-> 1 + ((k \div (V * V)) % H),
                  l |-> 1 + ((k \div V) % V),
                  r |-> 1 + (k % V)]
      Fits(top, bottom, left, right) ==
        /\ ~(10 * Abs(top.start.y - bottom.start.y) < height)
        /\ ~(10 * Abs(top.start.y - bottom.start.y) > 8 * height)
        /\ ~(10 * (Min(top.end.x, bottom.end.x) - Max(top.start.x, bottom.start.x)) < width)
        /\ ~(left.start.x >= right.start.x)
        /\ Abs(left.start.y - top.start.y) < tolerance
        /\ Abs(left.end.y - bottom.start.y) < tolerance
        /\ Abs(right.start.y - top.start.y) < tolerance
        /\ Abs(right.end.y - bottom.start.y) < tolerance
      Pushed(p) ==
        /\ p.i < p.j
        /\ Fits(horizontalLines[p.i], horizontalLines[p.j],
                verticalLines[p.l], verticalLines[p.r])
      Pushes(top, bottom, left, right) ==
        Rect(left.start.x, Min(top.start.y, left.start.y),
             right.start.x - left.start.x, Abs(top.start.y - bottom.start.y))
      Rects(picks) ==
        [n \in 1..Len(picks) |->
           Pushes(horizontalLines[picks[n].i], horizontalLines[picks[n].j],
                  verticalLines[picks[n].l], verticalLines[picks[n].r])]
  IN Rects(SelectSeq([k \in 1..(H * H * V * V) |-> Pick(k - 1)], Pushed))

\* the cells of the grid with density[gy][gx] >= threshold:
\* count / (cellW * cellH) >= 0.1 with cellW * cellH = width * height / 100
DenseCells(edges, width, height) ==
  {c \in {[x |-> gx, y |-> gy] : gx \in 0..(gridSize - 1), gy \in 0..(gridSize - 1)} :
     LET Dense(count) == ~(1000 * count < width * height)
     IN Dense(Cardinality(
          {idx \in edges :
             /\ idx % width >= (c.x * width) \div gridSize
             /\ idx % width < ((c.x + 1) * width) \div gridSize
             /\ idx \div width >= (c.y * height) \div gridSize
             /\ idx \div width < ((c.y + 1) * height) \div gridSize}))}

\* an image of one colour with a block of another colour
BlockImage(width, height, back, block, fore) ==
  [width |-> width, height |-> height,
   data |-> [i \in 0..(width * height - 1) |->
               IF /\ i % width \in block.x..(block.x + block.width - 1)
                  /\ i \div width \in block.y..(block.y + block.height - 1)
               THEN fore ELSE back]]

Grey(v) == [r |-> v, g |-> v, b |-> v]

UniformImage(width, height, colour) ==
  BlockImage(width, height, colour, Rect(0, 0, 0, 0), colour)

\* canvases the analysis loop can draw: smaller than 3 pixels on a side,
\* uniform, with a faint block that leaves no edge, with a tag-like block
Image1x1 == UniformImage(1, 1, Grey(255))
Image2x5 == BlockImage(2, 5, Grey(0), Rect(0, 0, 1, 5), Grey(255))
Image5x2 == BlockImage(5, 2, Grey(0), Rect(0, 0, 5, 1), Grey(255))
ImageUniform == UniformImage(3, 3, Grey(128))
ImageUniformWide == UniformImage(20, 10, [r |-> 200, g |-> 30, b |-> 30])
ImageFaint == BlockImage(20, 20, Grey(100), Rect(5, 5, 10, 10), Grey(104))
ImageTag == BlockImage(20, 20, Grey(0), Rect(5, 5, 11, 11), Grey(255))
ImageTagShifted == BlockImage(20, 20, Grey(0), Rect(3, 5, 11, 11), Grey(255))

Images == <<Image1x1, Image2x5, Image5x2, ImageUniform, ImageUniformWide,
            ImageFaint, ImageTag, ImageTagShifted>>

\* blurScore and tagBounds of analyzeFrame for the pixels of a canvas
PixelAnalysis(imageData) ==
  LET width == imageData.width
      height == imageData.height
      Bounds(edges) ==
        findTagBounds(findRectangles(findHorizontalLines(edges, width, height, 0),
                                     findVerticalLines(edges, width, height, 0),
                                     width, height),
                      findTagByEdgeDensity(DenseCells(edges, width, height), width, height),
                      width, height)
      Analysis(grayscale) ==
        [blurScore |-> calculateBlurScore(grayscale, width, height),
         tagBounds |-> Bounds(detectEdges(grayscale, width, height))]
  IN Analysis(toGrayscale(imageData))

-----------------------------------------------------------------------------
(* lib/frameAnalyzer.ts : stability tracker                                *)

\* variant: a frame without a region leaves the buffer as it is
StabilityBufferAfter_KeepOnNull(buf, currentBounds) ==
  IF currentBounds = NULL THEN buf
  ELSE LET pushed == Append(buf, currentBounds)
       IN IF Len(pushed) > STABILITY_BUFFER_SIZE THEN Tail(pushed) ELSE pushed

\* variant: the oldest entry is evicted one push too late
StabilityBufferAfter_LateShift(buf, currentBounds) ==
  IF currentBounds = NULL THEN <<>>
  ELSE LET pushed == Append(buf, currentBounds)
       IN IF Len(pushed) > STABILITY_BUFFER_SIZE + 1 THEN Tail(pushed) ELSE pushed

\* stabilityBuffer after calculateStability(currentBounds)
StabilityBufferAfter(buf, currentBounds) ==
  IF currentBounds = NULL THEN <<>>
  ELSE LET pushed == Append(buf, currentBounds)
       IN IF Len(pushed) > STABILITY_BUFFER_SIZE THEN Tail(pushed) ELSE pushed

\* sqrt(variance) / 50 in thousandths, over the centers of buf (n = Len(buf)):
\* with doubled centers c = 2x + w and S their sum, variance = N / (4 n^3),
\* N = sum (n*c - S)^2 over both axes
PositionSpread(buf) ==
  LET n == Len(buf)
      cx == [i \in 1..n |-> 2 * buf[i].x + buf[i].width]
      cy == [i \in 1..n |-> 2 * buf[i].y + buf[i].height]
      sx == SumSeq(cx)
      sy == SumSeq(cy)
      N == SumSeq([i \in 1..n |-> (n * cx[i] - sx) * (n * cx[i] - sx)
                                 + (n * cy[i] - sy) * (n * cy[i] - sy)])
  IN Isqrt((100 * N) \div (n * n * n))

\* sqrt(sizeVariance) / avgSize in thousandths
SizeSpread(buf) ==
  LET n == Len(buf)
      sizes == [i \in 1..n |-> buf[i].width * buf[i].height]
      s == SumSeq(sizes)
      q == [i \in 1..n |-> (Abs(n * sizes[i] - s) * 1000) \div s]
  IN Isqrt(SumSeq([i \in 1..n |-> q[i] * q[i]]) \div n)

\* positionStability * 0.7 + sizeStability * 0.3
VarianceStability(buf) ==
  LET positionStability == Max(0, 1000 - PositionSpread(buf))
      sizeStability == Max(0, 1000 - SizeSpread(buf))
  IN ((positionStability * 7 + sizeStability * 3) * StabilityUnit) \div 10000

\* variant: a buffer that is not full earns its whole share
StabilityValue_FullCredit(buf, currentBounds) ==
  IF currentBounds = NULL THEN 0
  ELSE IF Len(buf) < STABILITY_BUFFER_SIZE
       THEN (Len(buf) * StabilityUnit) \div STABILITY_BUFFER_SIZE
       ELSE VarianceStability(buf)

\* variant: the variance formula is already used on two entries
StabilityValue_EarlyVariance(buf, currentBounds) ==
  IF currentBounds = NULL THEN 0
  ELSE IF Len(buf) < STABILITY_BUFFER_SIZE - 1
       THEN (Len(buf) * StabilityUnit) \div (STABILITY_BUFFER_SIZE * 2)
       ELSE VarianceStability(buf)

\* the value calculateStability returns, buf being the buffer after the push
StabilityValue(buf, currentBounds) ==
  IF currentBounds = NULL THEN 0
  ELSE IF Len(buf) < STABILITY_BUFFER_SIZE
       THEN (Len(buf) * StabilityUnit) \div (STABILITY_BUFFER_SIZE * 2)
       ELSE VarianceStability(buf)

\* the record analyzeFrame returns (timestamp omitted)
FrameAnalysisOf(blurScore, tagBounds, stability) ==
  [blurScore |-> blurScore,
   isSharp |-> blurScore # NaN /\ blurScore >= BLUR_THRESHOLD,
   tagDetected |-> tagBounds # NULL,
   tagBounds |-> tagBounds,
   stability |-> stability]

\* variant: sharpness is not required
shouldAutoCapture_NoSharp(analysis) ==
  /\ analysis.tagDetected
  /\ analysis.stability >= STABILITY_THRESHOLD

shouldAutoCapture(analysis) ==
  /\ analysis.isSharp
  /\ analysis.tagDetected
  /\ analysis.stability >= STABILITY_THRESHOLD

\* analyzeFrame(canvas, ctx): blurScore is calculateBlurScore of the frame,
\* rectangles is findRectangles of its edge map, densityResult is
\* findTagByEdgeDensity of its edge map
\* variant: a frame without a region keeps the region of the frame before
TrackedBounds_KeepLast(buffer, tagBounds) ==
  IF tagBounds = NULL /\ Len(buffer) > 0 THEN buffer[Len(buffer)] ELSE tagBounds

\* tagBounds of the analysis: what findTagBounds returned
TrackedBounds(buffer, tagBounds) == tagBounds

\* analyzeFrame from the blur score and the region of the frame on
AnalyzeWith(blurScore, foundBounds) ==
  LET tagBounds == TrackedBounds(stabilityBuffer, foundBounds)
      buf == StabilityBufferAfter(stabilityBuffer, tagBounds)
      analysis == FrameAnalysisOf(blurScore, tagBounds, StabilityValue(buf, tagBounds))
  IN /\ stabilityBuffer' = buf
     /\ prevTagDetected' = IF lastAnalysis = NULL THEN "none"
                           ELSE IF lastAnalysis.tagDetected THEN "yes" ELSE "no"
     /\ accepted' = IF tagBounds = NULL THEN <<>>
                    ELSE LastN(Append(accepted, tagBounds), STABILITY_BUFFER_SIZE + 1)
     /\ lastAnalysis' = analysis
     /\ autoCapture' = shouldAutoCapture(analysis)

\* analyzeFrame on a canvas of FrameWidth x FrameHeight whose blur score,
\* rectangles and dense region are given
AnalyzeFrame(blurScore, rectangles, densityResult) ==
  AnalyzeWith(blurScore,
              findTagBounds(rectangles, densityResult, FrameWidth, FrameHeight))

\* PixelAnalysis of each canvas of Images
PixelAnalyses == [i \in 1..Len(Images) |-> PixelAnalysis(Images[i])]

\* analyzeFrame on the pixels of the canvas Images[image]
analyzeFrame(image) ==
  AnalyzeWith(PixelAnalyses[image].blurScore, PixelAnalyses[image].tagBounds)

ResetStabilityTracking ==
  /\ stabilityBuffer' = <<>>
  /\ accepted' = <<>>
  /\ UNCHANGED <<lastAnalysis, prevTagDetected, autoCapture>>

-----------------------------------------------------------------------------
(* lib/frameAnalyzer.ts : frame buffer                                     *)

\* variant: the buffer evicts as soon as it is full
FrameBufferAfterAdd_EarlyShift(buf, frame) ==
  LET pushed == Append(buf, frame)
  IN IF Len(pushed) >= FRAME_BUFFER_SIZE THEN Tail(pushed) ELSE pushed

\* frameBuffer after addToFrameBuffer pushed frame
FrameBufferAfterAdd(buf, frame) ==
  LET pushed == Append(buf, frame)
  IN IF Len(pushed) > FRAME_BUFFER_SIZE THEN Tail(pushed) ELSE pushed

AddToFrameBuffer(analysis) ==
  LET frame == [id |-> nextFrameId, analysis |-> analysis]
  IN /\ frameBuffer' = FrameBufferAfterAdd(frameBuffer, frame)
     /\ addedSinceClear' = Append(addedSinceClear, frame)
     /\ nextFrameId' = nextFrameId + 1

ClearFrameBuffer ==
  /\ frameBuffer' = <<>>
  /\ addedSinceClear' = <<>>
  /\ UNCHANGED nextFrameId

getFrameBufferSize == Len(frameBuffer)

-----------------------------------------------------------------------------
(* lib/frameAnalyzer.ts : best-frame selection                             *)

\* Array.prototype.sort is stable. The comparators of getBestFrame and
\* getBestFrames order by a number, larger first: rank[i] is the number of
\* s[i], and e goes behind every element whose rank is not smaller
RECURSIVE InsertStable(_, _)
InsertStable(sorted, e) ==
  IF sorted = <<>> THEN <<e>>
  ELSE IF e.rank > Head(sorted).rank
       THEN <<e>> \o sorted
       ELSE <<Head(sorted)>> \o InsertStable(Tail(sorted), e)

RECURSIVE SortRanked(_)
SortRanked(s) ==
  IF s = <<>> THEN <<>>
  ELSE InsertStable(SortRanked(SubSeq(s, 1, Len(s) - 1)), s[Len(s)])

SortStable(s, rank) ==
  LET ranked == SortRanked([i \in 1..Len(s) |-> [item |-> s[i], rank |-> rank[i]]])
  IN [i \in 1..Len(s) |-> ranked[i].item]

\* variant: the tag bonus is left out
BurstScore_BlurOnly(frame) == frame.analysis.blurScore

\* blurScore + (tagDetected ? 0.5 : 0), hundredths
BurstScore(frame) ==
  frame.analysis.blurScore + (IF frame.analysis.tagDetected THEN 50 ELSE 0)

\* variant: blurScore alone decides
BestFrameRank_BlurOnly(frame) == frame.analysis.blurScore

\* tag detected first, then blurScore (at most 1.0) descending
BestFrameRank(frame) ==
  (IF frame.analysis.tagDetected THEN 101 ELSE 0) + frame.analysis.blurScore

getBestFrames(count) ==
  IF Len(frameBuffer) = 0 THEN <<>>
  ELSE LET sorted == SortStable(frameBuffer,
                       [i \in 1..Len(frameBuffer) |-> BurstScore(frameBuffer[i])])
       IN SubSeq(sorted, 1, Min(count, Len(sorted)))

getBestFrame ==
  IF Len(frameBuffer) = 0 THEN NULL
  ELSE LET sorted == SortStable(frameBuffer,
                       [i \in 1..Len(frameBuffer) |-> BestFrameRank(frameBuffer[i])])
       IN sorted[1]

\* frameBuffer once getBestFrame has returned: the sort works on the copy
\* `[...frameBuffer]`
BufferAfterGetBestFrame(buf) == buf

\* frameBuffer once getBestFrames has returned: sort and slice work on the
\* copy `[...frameBuffer]`
BufferAfterGetBestFrames(buf) == buf

-----------------------------------------------------------------------------
(* components/SmartCamera.tsx                                              *)

\* the state a callback closed over when it was created
Closure(capturing, dis, mode, analysis) ==
  [isCapturing |-> capturing, disabled |-> dis, captureMode |-> mode,
   currentAnalysis |-> analysis]

\* startCountdown is memoized with no dependencies: the doCapture it calls is
\* the one of the first render
FirstRenderClosure == Closure(FALSE, FALSE, "burst", NULL)

\* handleManualCapture is re-created with every doCapture
CurrentClosure == Closure(isCapturing, disabled, captureMode, lastAnalysis)

\* the fallback analysis of a capture of the live frame
DefaultAnalysis ==
  [blurScore |-> 50, isSharp |-> TRUE, tagDetected |-> FALSE,
   tagBounds |-> NULL, stability |-> StabilityUnit \div 2]

BufferedIds == {frameBuffer[i].id : i \in 1..Len(frameBuffer)}

\* the finally block of doCapture
CaptureFinally ==
  /\ isCapturing' = FALSE
  /\ autoCaptureReady' = FALSE
  /\ stabilityBuffer' = <<>>
  /\ accepted' = <<>>

\* doCapture(analysis) from its entry to its first await
DoCaptureEnter(analysis, closure) ==
  /\ ~closure.isCapturing
  /\ ~closure.disabled
  /\ isCapturing' = TRUE
  /\ LET bestFrames == getBestFrames(3)
         bestFrame == getBestFrame
         currentBlur == IF closure.currentAnalysis = NULL THEN 0
                        ELSE closure.currentAnalysis.blurScore
         base == [id |-> nextCaptureId, buffered |-> BufferedIds, next |-> 1]
     IN IF closure.captureMode = "burst" /\ Len(bestFrames) > 0
        THEN captures' = captures \cup
               {base @@ [path |-> "burst", frames |-> bestFrames,
                         finalAnalysis |-> NULL]}
        ELSE IF bestFrame # NULL /\ bestFrame.analysis.blurScore > currentBlur
             THEN captures' = captures \cup
                    {base @@ [path |-> "single", frames |-> <<bestFrame>>,
                              finalAnalysis |-> bestFrame.analysis]}
             ELSE captures' = captures \cup
                    {base @@ [path |-> "single", frames |-> <<>>,
                              finalAnalysis |->
                                IF analysis # NULL THEN analysis
                                ELSE IF closure.currentAnalysis # NULL
                                     THEN closure.currentAnalysis
                                     ELSE DefaultAnalysis]}
  /\ nextCaptureId' = nextCaptureId + 1
  /\ UNCHANGED <<captureMode, autoCaptureReady, disabled, finished>>

\* doCapture resumed after an await of frameToBlob / canvas.toBlob, which
\* produced a blob (ok) or rejected
DoCaptureResume(capture, ok) ==
  /\ capture \in captures
  /\ IF ok /\ capture.path = "burst" /\ capture.next < Len(capture.frames)
     THEN \* next iteration of the for-loop, next await
          /\ captures' = (captures \ {capture}) \cup
                           {[capture EXCEPT !.next = capture.next + 1]}
          /\ lastOp' = "doCaptureBlob"
          /\ UNCHANGED <<isCapturing, autoCaptureReady, disabled, finished,
                         stabilityBuffer, accepted, bufferVars>>
     ELSE /\ captures' = captures \ {capture}
          /\ CaptureFinally
          /\ lastOp' = "doCaptureDone"
          /\ IF ok
             THEN \* onBurstCapture / onCapture, then clearFrameBuffer();
                  \* the page leaves the 'camera' state
                  /\ finished' = [id |-> capture.id, outcome |-> "delivered",
                                  path |-> capture.path,
                                  buffered |-> capture.buffered]
                  /\ disabled' = TRUE
                  /\ ClearFrameBuffer
             ELSE \* catch: console.error
                  /\ finished' = [id |-> capture.id, outcome |-> "error",
                                  path |-> capture.path,
                                  buffered |-> capture.buffered]
                  /\ UNCHANGED <<disabled, bufferVars>>
  /\ UNCHANGED <<captureMode, countdown, nextCaptureId>>

\* one sampled frame of the analysis loop started by startFrameAnalysis
AnalysisLoopFrame(blurScore, rectangles, densityResult) ==
  /\ AnalyzeFrame(blurScore, rectangles, densityResult)
  /\ AddToFrameBuffer(lastAnalysis')
  /\ LET analysis == lastAnalysis'
         idle == ~disabled /\ ~isCapturing
         trigger ==
           \/ captureMode = "auto" /\ idle /\ shouldAutoCapture(analysis)
           \/ captureMode = "burst" /\ idle
                /\ Len(frameBuffer') >= 5 /\ analysis.tagDetected
         lost == captureMode = "auto" /\ idle /\ ~shouldAutoCapture(analysis)
     IN IF trigger /\ ~autoCaptureReady
        THEN autoCaptureReady' = TRUE /\ countdown' = Some(analysis)
        ELSE IF lost /\ autoCaptureReady
             THEN autoCaptureReady' = FALSE /\ countdown' = NULL
             ELSE UNCHANGED <<autoCaptureReady, countdown>>
  /\ UNCHANGED <<isCapturing, captureMode, disabled, captures, finished,
                 nextCaptureId>>

\* toggleCaptureMode, and the effect that runs when captureMode changed
ToggleCaptureMode ==
  /\ captureMode' = CASE captureMode = "burst" -> "auto"
                      [] captureMode = "auto" -> "manual"
                      [] OTHER -> "burst"
  /\ autoCaptureReady' = FALSE
  /\ countdown' = NULL
  /\ ClearFrameBuffer
  /\ stabilityBuffer' = <<>>
  /\ accepted' = <<>>
  /\ UNCHANGED <<lastAnalysis, prevTagDetected, autoCapture, isCapturing,
                 disabled, captures, finished, nextCaptureId>>

\* the countdown of startCountdown runs out: doCapture(analysis)
CountdownFires ==
  /\ countdown # NULL
  /\ countdown' = NULL
  /\ DoCaptureEnter(countdown.some, FirstRenderClosure)

\* the capture button: handleManualCapture
ManualCapture ==
  /\ DoCaptureEnter(lastAnalysis, CurrentClosure)
  /\ UNCHANGED countdown

\* app/page.tsx: handleReset and the other handlers that go back to 'camera'
BackToCamera ==
  /\ disabled
  /\ disabled' = FALSE
  /\ UNCHANGED <<isCapturing, captureMode, autoCaptureReady, countdown,
                 captures, finished, nextCaptureId>>

-----------------------------------------------------------------------------
(* lib/clientOcr.ts : characters and regular-expression primitives         *)
(* A text is a string; its characters are its substrings of length 1.      *)

CharAt(text, i) == SubSeq(text, i, i)

DecimalDigits == "0123456789"
UpperLetters == "ABCDEFGHIJKLMNOPQRSTUVWXYZ"
LowerLetters == "abcdefghijklmnopqrstuvwxyz"

CharsOf(text) == {CharAt(text, i) : i \in 1..Len(text)}

\* \d
DigitClass == CharsOf(DecimalDigits)

\* \w
WordClass == DigitClass \cup CharsOf(UpperLetters) \cup CharsOf(LowerLetters) \cup {"_"}

\* \s, as far as the recognizer emits it
SpaceClass == {" ", "\n", "\t"}

MaxOf(S) == CHOOSE v \in S : \A w \in S : v >= w

\* \b at the gap in front of text[i], i in 1..Len(text) + 1
WordBoundary(text, i) ==
  LET before == i > 1 /\ CharAt(text, i - 1) \in WordClass
      after == i <= Len(text) /\ CharAt(text, i) \in WordClass
  IN before # after

\* what a greedy `[class]{0,most}` consumes from text[i] on
RECURSIVE RunLength(_, _, _, _)
RunLength(text, i, class, most) ==
  IF most = 0 \/ i > Len(text) THEN 0
  ELSE IF CharAt(text, i) \notin class THEN 0
  ELSE 1 + RunLength(text, i + 1, class, most - 1)

DigitValue(c) == CHOOSE d \in 0..9 : CharAt(DecimalDigits, d + 1) = c

\* parseInt(digits, 10) of a string of decimal digits
RECURSIVE ParseInt(_)
ParseInt(digits) ==
  IF Len(digits) = 0 THEN 0
  ELSE 10 * ParseInt(SubSeq(digits, 1, Len(digits) - 1))
         + DigitValue(CharAt(digits, Len(digits)))

\* String.prototype.toLowerCase / toUpperCase of one character
LowerChar(c) ==
  IF c \in CharsOf(UpperLetters)
  THEN CharAt(LowerLetters, CHOOSE i \in 1..26 : CharAt(UpperLetters, i) = c)
  ELSE c

UpperChar(c) ==
  IF c \in CharsOf(LowerLetters)
  THEN CharAt(UpperLetters, CHOOSE i \in 1..26 : CharAt(LowerLetters, i) = c)
  ELSE c

RECURSIVE toLowerCase(_)
toLowerCase(text) ==
  IF Len(text) = 0 THEN text
  ELSE toLowerCase(SubSeq(text, 1, Len(text) - 1)) \o LowerChar(CharAt(text, Len(text)))

-----------------------------------------------------------------------------
(* lib/clientOcr.ts : item number                                          *)

\* ITEM_NUMBER_PATTERN = /\b(\d{6,8})\b/g tried at position i: the match
\* with the longest digit group the backtracking reaches, or NULL
ItemNumberMatchAt(text, i) ==
  LET Lens(run) == {k \in 6..8 : k <= run /\ WordBoundary(text, i + k)}
      Group(lens) ==
        IF WordBoundary(text, i) /\ lens # {}
        THEN [start |-> i, end |-> i + MaxOf(lens),
              group |-> SubSeq(text, i, i + MaxOf(lens) - 1)]
        ELSE NULL
  IN Group(Lens(RunLength(text, i, DigitClass, 8)))

\* the `while ((match = ITEM_NUMBER_PATTERN.exec(text)) !== null)` loop with
\* lastIndex = from
RECURSIVE ItemNumberMatches(_, _)
ItemNumberMatches(text, from) ==
  LET Rest(m) == <<m>> \o ItemNumberMatches(text, m.end)
      From(starts) ==
        IF starts = {} THEN <<>> ELSE Rest(ItemNumberMatchAt(text, MinOf(starts)))
  IN From({i \in from..Len(text) : ItemNumberMatchAt(text, i) # NULL})

\* variant: the first match wins whatever its length
extractItemNumber_FirstMatch(text) ==
  LET First(matches) == IF matches # <<>> THEN Some(matches[1].group) ELSE NULL
  IN First(ItemNumberMatches(text, 1))

extractItemNumber(text) ==
  LET Choice(matches, sevens) ==
        IF sevens # {} THEN Some(matches[MinOf(sevens)].group)
        ELSE IF matches # <<>> THEN Some(matches[1].group)
        ELSE NULL
      Sevens(matches) ==
        Choice(matches, {k \in 1..Len(matches) : Len(matches[k].group) = 7})
  IN Sevens(ItemNumberMatches(text, 1))

-----------------------------------------------------------------------------
(* lib/clientOcr.ts : price                                                *)

\* PRICE_PATTERN = /\$?\s*(\d{1,4})[.,](\d{2})\b/g tried at position i.
\* Backtracking finds nothing the greedy attempt does not: without the `$`
\* or with fewer blanks the next character had to be a blank or a digit,
\* and with fewer dollar digits the separator had to be a digit.
PriceMatchAt(text, i) ==
  LET Separator(b, c) ==
     IF /\ c > b
        /\ c + 2 <= Len(text)
        /\ CharAt(text, c) \in {".", ","}
        /\ CharAt(text, c + 1) \in DigitClass
        /\ CharAt(text, c + 2) \in DigitClass
        /\ WordBoundary(text, c + 3)
     THEN [start |-> i, end |-> c + 3,
           dollars |-> SubSeq(text, b, c - 1),
           cents |-> SubSeq(text, c + 1, c + 2)]
     ELSE NULL
      Dollars(b) == Separator(b, b + RunLength(text, b, DigitClass, 4))
      Blanks(a) == Dollars(a + RunLength(text, a, SpaceClass, Len(text)))
  IN Blanks(IF i <= Len(text) /\ CharAt(text, i) = "$" THEN i + 1 ELSE i)

RECURSIVE PriceMatches(_, _)
PriceMatches(text, from) ==
  LET Rest(m) == <<m>> \o PriceMatches(text, m.end)
      From(starts) ==
        IF starts = {} THEN <<>> ELSE Rest(PriceMatchAt(text, MinOf(starts)))
  IN From({i \in from..Len(text) : PriceMatchAt(text, i) # NULL})

\* variant: a later match with the same dollar amount replaces the best
MoreDollars_OrEqual(current, best) ==
  ParseInt(current.dollars) >= ParseInt(best.dollars)

\* `currentDollars > bestDollars`
MoreDollars(current, best) ==
  ParseInt(current.dollars) > ParseInt(best.dollars)

\* matches.reduce((best, current) => ...) over matches[1..n]
RECURSIVE BestPriceMatch(_, _)
BestPriceMatch(matches, n) ==
  IF n = 1 THEN matches[1]
  ELSE LET Reduce(best) == IF MoreDollars(matches[n], best) THEN matches[n] ELSE best
       IN Reduce(BestPriceMatch(matches, n - 1))

\* price in cents: parseFloat(`${dollars}.${cents}`) has two decimals
extractPrice(text) ==
  LET Priced(bestMatch) ==
        [price |-> Some(100 * ParseInt(bestMatch.dollars) + ParseInt(bestMatch.cents)),
         priceEnding |-> Some("." \o bestMatch.cents)]
      Best(matches) ==
        IF Len(matches) = 0
        THEN [price |-> NULL, priceEnding |-> NULL]
        ELSE Priced(BestPriceMatch(matches, Len(matches)))
  IN Best(PriceMatches(text, 1))

-----------------------------------------------------------------------------
(* lib/clientOcr.ts : unit price                                           *)

\* a value a statement threw: an Error with a message, or any other value
Thrown(isError, text) == [thrown |-> [isError |-> isError, text |-> text]]

Throws(outcome) == "thrown" \in DOMAIN outcome

\* the alternatives of the unit group, in the order the pattern tries them
UnitAlternatives == <<"oz", "lb", "ct", "ea", "qt", "gal", "ml", "L", "kg", "g">>

\* the alternatives that match at position p, the flag i ignoring case
UnitsAt(text, p) ==
  {k \in 1..Len(UnitAlternatives) :
     LET unit == UnitAlternatives[k]
     IN /\ p + Len(unit) - 1 <= Len(text)
        /\ toLowerCase(SubSeq(text, p, p + Len(unit) - 1)) = toLowerCase(unit)}

\* UNIT_PRICE_PATTERN =
\*   /(\d+[.,]\d{2,4})\s*\/\s*(oz|lb|ct|ea|qt|gal|ml|L|kg|g)/gi
\* tried at position i; as for the price, backtracking adds no match
UnitPriceMatchAt(text, i) ==
  LET Whole(d, unit) ==
        [start |-> i, end |-> d + Len(unit),
         whole |-> SubSeq(text, i, d + Len(unit) - 1)]
      Unit(a, b, c, d, units) ==
        IF /\ a > i
           /\ a <= Len(text)
           /\ CharAt(text, a) \in {".", ","}
           /\ b - (a + 1) >= 2
           /\ c <= Len(text)
           /\ CharAt(text, c) = "/"
           /\ units # {}
        THEN Whole(d, UnitAlternatives[MinOf(units)])
        ELSE NULL
      AfterSlash(a, b, c, d) == Unit(a, b, c, d, UnitsAt(text, d))
      Slash(a, b, c) ==
        AfterSlash(a, b, c, c + 1 + RunLength(text, c + 1, SpaceClass, Len(text)))
      Decimals(a, b) == Slash(a, b, b + RunLength(text, b, SpaceClass, Len(text)))
      Digits(a) == Decimals(a, a + 1 + RunLength(text, a + 1, DigitClass, 4))
  IN Digits(i + RunLength(text, i, DigitClass, Len(text)))

\* text.match(UNIT_PRICE_PATTERN): the pattern has the flag g, so the array
\* holds the whole text of every match and no capture group
RECURSIVE UnitPriceMatches(_, _)
UnitPriceMatches(text, from) ==
  LET Rest(m) == <<m.whole>> \o UnitPriceMatches(text, m.end)
      From(starts) ==
        IF starts = {} THEN <<>> ELSE Rest(UnitPriceMatchAt(text, MinOf(starts)))
  IN From({i \in from..Len(text) : UnitPriceMatchAt(text, i) # NULL})

RECURSIVE Pow10(_)
Pow10(n) == IF n = 0 THEN 1 ELSE 10 * Pow10(n - 1)

\* String.prototype.replace(',', '.'): the first comma only
ReplaceFirstComma(text) ==
  LET Replaced(commas) ==
        IF commas = {} THEN text
        ELSE SubSeq(text, 1, MinOf(commas) - 1) \o "." \o
             SubSeq(text, MinOf(commas) + 1, Len(text))
  IN Replaced({i \in 1..Len(text) : CharAt(text, i) = ","})

\* parseFloat of a text that starts with a digit: the longest prefix
\* digits[.digits], as a fraction
ParseFloat(text) ==
  LET Fraction(whole, decimals) ==
        [num |-> ParseInt(SubSeq(text, 1, whole) \o
                          SubSeq(text, whole + 2, whole + 1 + decimals)),
         den |-> Pow10(decimals)]
      Whole(whole) ==
        Fraction(whole,
                 IF whole < Len(text) /\ CharAt(text, whole + 1) = "."
                 THEN RunLength(text, whole + 2, DigitClass, Len(text))
                 ELSE 0)
  IN Whole(RunLength(text, 1, DigitClass, Len(text)))

\* match[1] and match[2] of the source are matches[2] and matches[3] here;
\* reading a property of an absent element throws a TypeError
extractUnitPrice(text) ==
  LET Groups(matches) ==
        IF Len(matches) = 0
        THEN [unitPrice |-> NULL, unitMeasure |-> NULL]
        ELSE IF Len(matches) < 2
        THEN Thrown(TRUE, "Cannot read properties of undefined (reading 'replace')")
        ELSE IF Len(matches) < 3
        THEN Thrown(TRUE, "Cannot read properties of undefined (reading 'toLowerCase')")
        ELSE [unitPrice |-> Some(ParseFloat(ReplaceFirstComma(matches[2]))),
              unitMeasure |-> Some(toLowerCase(matches[3]))]
  IN Groups(UnitPriceMatches(text, 1))

-----------------------------------------------------------------------------
(* lib/clientOcr.ts and test-ocr.js : discontinuation marker               *)

\* ASTERISK_PATTERN = /\*/ of clientOcr.ts, .test(text)
ASTERISK_PATTERN(text) == "*" \in CharsOf(text)

\* ASTERISK_PATTERN of test-ocr.js, .test(text):
\*   /[\*\u2022\u2217\u066D]|(?:^|\s)[*xX\+](?:\s|$)|sk$/i
\* The bullet and star characters of the first class are not in the
\* tessedit_char_whitelist extractPriceTag sets, so a recognized text has
\* none of them; of that class the asterisk is left.
TolerantAsteriskPattern(text) ==
  \/ "*" \in CharsOf(text)
  \/ \E i \in 1..Len(text) :
       /\ CharAt(text, i) \in {"*", "x", "X", "+"}
       /\ i = 1 \/ CharAt(text, i - 1) \in SpaceClass
       /\ i = Len(text) \/ CharAt(text, i + 1) \in SpaceClass
  \/ /\ Len(text) >= 2
     /\ toLowerCase(SubSeq(text, Len(text) - 1, Len(text))) = "sk"

-----------------------------------------------------------------------------
(* lib/clientOcr.ts : description                                          *)

\* text.split('\n')
RECURSIVE SplitLines(_)
SplitLines(text) ==
  LET Split(breaks) ==
        IF breaks = {} THEN <<text>>
        ELSE <<SubSeq(text, 1, MinOf(breaks) - 1)>> \o
             SplitLines(SubSeq(text, MinOf(breaks) + 1, Len(text)))
  IN Split({i \in 1..Len(text) : CharAt(text, i) = "\n"})

\* text.match(/[class]{least,}/g) from position `from` on. The leftmost
\* match starts where a run of class characters starts and, being greedy,
\* takes the whole run: the result is the maximal runs of at least `least`
\* characters
RECURSIVE ClassRuns(_, _, _, _)
ClassRuns(text, class, least, from) ==
  LET Run(i, n) == <<SubSeq(text, i, i + n - 1)>> \o ClassRuns(text, class, least, i + n)
      First(i) == Run(i, RunLength(text, i, class, Len(text)))
      From(starts) == IF starts = {} THEN <<>> ELSE First(MinOf(starts))
  IN From({i \in from..Len(text) :
             /\ CharAt(text, i) \in class
             /\ i = from \/ CharAt(text, i - 1) \notin class
             /\ RunLength(text, i, class, Len(text)) >= least})

Vowels == {"a", "e", "i", "o", "u", "A", "E", "I", "O", "U"}

isGarbageWord(word) ==
  LET n == Len(word)
      caseChanges ==
        Cardinality({i \in 2..n :
          (CharAt(word, i - 1) = UpperChar(CharAt(word, i - 1)))
            # (CharAt(word, i) = UpperChar(CharAt(word, i)))})
      unique == {LowerChar(c) : c \in CharsOf(word)}
  IN \/ n < 3                                          \* too short
     \/ \E i \in 1..(n - 2) :                            \* /(.)\1{2,}/
          CharAt(word, i) = CharAt(word, i + 1) /\ CharAt(word, i) = CharAt(word, i + 2)
     \/ 10 * caseChanges > 6 * n                        \* > word.length * 0.6
     \/ Cardinality(unique) = 1 /\ n > 1
     \/ n >= 4 /\ CharsOf(word) \cap Vowels = {}         \* no vowel
     \/ n >= 2 /\ CharsOf(word) \subseteq Vowels         \* /^[aeiou]{2,}$/i
     \/ n >= 2 /\ Cardinality(unique) = 1               \* /^(.)\1+$/i

skipWords ==
  {"oz", "lb", "ct", "ea", "qt", "gal", "ml", "kg", "per", "unit",
   "price", "item", "each", "total", "sale", "reg", "save", "sell",
   "liter", "litre", "count", "pack", "size"}

\* variant: stop-listed words are kept
KeepsWord_NoSkipList(word) == ~isGarbageWord(word)

\* `!skipWords.has(lower) && !isGarbageWord(word)`
KeepsWord(word) == toLowerCase(word) \notin skipWords /\ ~isGarbageWord(word)

\* the words of words[1..n] that the filter keeps, in order (the vowel test
\* of the fallback filter rejects nothing isGarbageWord lets through: its
\* words have 4+ letters)
RECURSIVE KeptWords(_, _)
KeptWords(words, n) ==
  IF n = 0 THEN <<>>
  ELSE IF KeepsWord(words[n])
       THEN Append(KeptWords(words, n - 1), words[n])
       ELSE KeptWords(words, n - 1)

\* the uppercase words kept on lines[1..n]
RECURSIVE DescriptionWords(_, _)
DescriptionWords(lines, n) ==
  IF n = 0 THEN <<>>
  ELSE LET Kept(uppercaseWords) == KeptWords(uppercaseWords, Len(uppercaseWords))
       IN DescriptionWords(lines, n - 1)
            \o Kept(ClassRuns(lines[n], CharsOf(UpperLetters), 4, 1))

\* words.slice(0, 5).join(' ')
RECURSIVE JoinWords(_, _)
JoinWords(words, n) ==
  IF n = 0 THEN ""
  ELSE IF n = 1 THEN words[1]
  ELSE JoinWords(words, n - 1) \o " " \o words[n]

extractDescription(text, itemNumber) ==
  LET Joined(words) == JoinWords(words, Min(5, Len(words)))
      \* the fallback over the words of any case
      Mixed(words, filteredWords, mixed) ==
        IF Len(words) = 0 THEN NULL
        ELSE IF Len(filteredWords) = 0 THEN NULL
        ELSE IF SumSeq([i \in 1..Len(filteredWords) |-> Len(filteredWords[i])])
                  < 4 * Len(filteredWords) THEN NULL
        ELSE IF Len(mixed) < 6 THEN NULL
        ELSE Some(mixed)
      Filtered(words, filteredWords) == Mixed(words, filteredWords, Joined(filteredWords))
      Fallback(words) == Filtered(words, KeptWords(words, Len(words)))
      Upper(descriptionWords, upper) ==
        IF Len(descriptionWords) >= 1 /\ Len(upper) >= 4 THEN Some(upper)
        ELSE Fallback(ClassRuns(text, CharsOf(UpperLetters) \cup CharsOf(LowerLetters), 4, 1))
      Described(descriptionWords) == Upper(descriptionWords, Joined(descriptionWords))
      Lines(lines) == Described(DescriptionWords(lines, Len(lines)))
  IN Lines(SplitLines(text))

-----------------------------------------------------------------------------
(* lib/clientOcr.ts : extractPriceTag                                      *)


\* variant: the catch block reports no error text
FailedExtraction_NoError(e) ==
  [success |-> FALSE, confidence |-> 0, itemNumber |-> NULL, price |-> NULL,
   priceEnding |-> NULL, unitPrice |-> NULL, unitMeasure |-> NULL,
   description |-> NULL, hasAsterisk |-> FALSE, error |-> NULL]

\* the object the catch block returns for the thrown value e
FailedExtraction(e) ==
  [success |-> FALSE, confidence |-> 0, itemNumber |-> NULL, price |-> NULL,
   priceEnding |-> NULL, unitPrice |-> NULL, unitMeasure |-> NULL,
   description |-> NULL, hasAsterisk |-> FALSE,
   error |-> Some(IF e.isError THEN e.text ELSE "OCR failed")]

PriceMissing(price) == price = NULL \/ price = Some(0)

\* what the promise of extractPriceTag settles to. recognition is what the
\* awaited steps up to worker.recognize gave: a thrown value, or data with
\* its text and its confidence (0..100)
extractPriceTag(recognition) ==
  IF Throws(recognition)
  THEN [settled |-> "resolved", value |-> FailedExtraction(recognition.thrown)]
  ELSE
    LET Parsed(text, itemNumber, priced, unit) ==
          IF Throws(unit)
          THEN [settled |-> "resolved", value |-> FailedExtraction(unit.thrown)]
          ELSE [settled |-> "resolved",
                value |->
                  [success |-> itemNumber # NULL /\ priced.price # NULL,
                   \* adjustedConfidence * 100 is this numerator over 20:
                   \* data.confidence, halved `if (!itemNumber)`, times
                   \* 3/10 `if (!price)`
                   confidence |->
                     RoundHalfUp(recognition.confidence
                                   * (IF itemNumber = NULL THEN 1 ELSE 2)
                                   * (IF PriceMissing(priced.price) THEN 3 ELSE 10),
                                 20),
                   itemNumber |-> itemNumber,
                   price |-> priced.price,
                   priceEnding |-> priced.priceEnding,
                   unitPrice |-> unit.unitPrice,
                   unitMeasure |-> unit.unitMeasure,
                   description |-> extractDescription(text, itemNumber),
                   hasAsterisk |-> ASTERISK_PATTERN(text),
                   error |-> NULL]]
    IN Parsed(recognition.text, extractItemNumber(recognition.text),
              extractPrice(recognition.text), extractUnitPrice(recognition.text))

-----------------------------------------------------------------------------
(* hooks/useMultiFrameOcr.ts : consensus engine                            *)

DigitChars == <<"0", "1", "2", "3", "4", "5", "6", "7", "8", "9">>

\* variant: cents.toString() without padStart
PriceEndingOf_NoPad(cents) ==
  IF cents < 10 THEN <<".", DigitChars[cents + 1]>>
  ELSE IF cents < 100
       THEN <<".", DigitChars[(cents \div 10) + 1], DigitChars[(cents % 10) + 1]>>
       ELSE <<".", "1", "0", "0">>

\* `.${cents.toString().padStart(2, '0')}` as a sequence of characters
PriceEndingOf(cents) ==
  IF cents < 10 THEN <<".", "0", DigitChars[cents + 1]>>
  ELSE IF cents < 100
       THEN <<".", DigitChars[(cents \div 10) + 1], DigitChars[(cents % 10) + 1]>>
       ELSE <<".", "1", "0", "0">>

\* keys of a vote Map in insertion order: the distinct non-null values of
\* field over frames[1..n], in order of first appearance
RECURSIVE VoteKeys(_, _, _)
VoteKeys(frames, field, n) ==
  IF n = 0 THEN <<>>
  ELSE LET before == VoteKeys(frames, field, n - 1)
           v == frames[n].extraction[field]
       IN IF v = NULL \/ (\E i \in 1..Len(before) : before[i] = v)
          THEN before
          ELSE Append(before, v)

\* variant: every frame counts the same, whatever its confidence
VoteWeight_Unweighted(frames, field, key) ==
  SumSeq([i \in 1..Len(frames) |->
            IF frames[i].extraction[field] = key THEN 100 ELSE 0])

\* summed confidence of the frames whose field equals key
VoteWeight(frames, field, key) ==
  SumSeq([i \in 1..Len(frames) |->
            IF frames[i].extraction[field] = key
            THEN frames[i].extraction.confidence ELSE 0])

\* number of frames whose field equals key
VoteCount(frames, field, key) ==
  SumSeq([i \in 1..Len(frames) |->
            IF frames[i].extraction[field] = key THEN 1 ELSE 0])

\* variant: a later key with the same score replaces the winner
BeatsBest_OrEqual(score, best) == score >= best

\* `score > bestItemNumberScore`, `data.weight > bestPriceScore`,
\* `count > bestDescriptionCount`
BeatsBest(score, best) == score > best

\* Map.forEach with `if (score > best) { best = score; winner = key }`,
\* from keys[i] on; acc = [key, score]
RECURSIVE VoteWinner(_, _, _, _)
VoteWinner(keys, weights, i, acc) ==
  IF i > Len(keys) THEN acc
  ELSE IF BeatsBest(weights[i], acc.score)
       THEN VoteWinner(keys, weights, i + 1, [key |-> keys[i], score |-> weights[i]])
       ELSE VoteWinner(keys, weights, i + 1, acc)

\* variant: half of the frames is enough
AsteriskMajority_OrHalf(asteriskCount, n) == 2 * asteriskCount >= n

\* `asteriskCount > frames.length / 2`
AsteriskMajority(asteriskCount, n) == 2 * asteriskCount > n

calculateConsensus(frames) ==
  IF Len(frames) = 0
  THEN [itemNumber |-> NULL,
        itemNumberConfidence |-> [num |-> 0, den |-> 1],
        price |-> NULL,
        priceConfidence |-> [num |-> 0, den |-> 1],
        priceEnding |-> NULL,
        hasAsterisk |-> FALSE,
        description |-> NULL,
        frameCount |-> 0,
        overallConfidence |-> [num |-> 0, den |-> 1]]
  ELSE
    LET n == Len(frames)
        itemKeys == VoteKeys(frames, "itemNumber", n)
        bestItem == VoteWinner(itemKeys,
                       [i \in 1..Len(itemKeys) |-> VoteWeight(frames, "itemNumber", itemKeys[i])],
                       1, [key |-> NULL, score |-> 0])
        priceKeys == VoteKeys(frames, "price", n)
        bestPrice == VoteWinner(priceKeys,
                       [i \in 1..Len(priceKeys) |-> VoteWeight(frames, "price", priceKeys[i])],
                       1, [key |-> NULL, score |-> 0])
        totalConfidence == SumSeq([i \in 1..n |-> frames[i].extraction.confidence])
        asteriskCount == SumSeq([i \in 1..n |->
                                   IF frames[i].extraction.hasAsterisk THEN 1 ELSE 0])
        descKeys == VoteKeys(frames, "description", n)
        bestDescription == VoteWinner(descKeys,
                       [i \in 1..Len(descKeys) |-> VoteCount(frames, "description", descKeys[i])],
                       1, [key |-> NULL, score |-> 0])
    IN [itemNumber |-> bestItem.key,
        itemNumberConfidence |->
          IF totalConfidence > 0 THEN [num |-> bestItem.score, den |-> totalConfidence]
                                 ELSE [num |-> 0, den |-> 1],
        price |-> bestPrice.key,
        priceConfidence |->
          IF totalConfidence > 0 THEN [num |-> bestPrice.score, den |-> totalConfidence]
                                 ELSE [num |-> 0, den |-> 1],
        priceEnding |->
          IF bestPrice.key = NULL THEN NULL
          ELSE Some(PriceEndingOf(bestPrice.key.some % 100)),
        hasAsterisk |-> AsteriskMajority(asteriskCount, n),
        description |-> bestDescription.key,
        frameCount |-> n,
        overallConfidence |->
          IF totalConfidence > 0
          THEN [num |-> bestItem.score + bestPrice.score, den |-> 2 * totalConfidence]
          ELSE [num |-> 0, den |-> 1]]

\* variant: both confidences have to reach MIN_CONSENSUS
HasConfidentResult_Both(result) ==
  /\ 100 * result.itemNumberConfidence.num >= MIN_CONSENSUS * result.itemNumberConfidence.den
  /\ 100 * result.priceConfidence.num >= MIN_CONSENSUS * result.priceConfidence.den

\* result.itemNumberConfidence >= MIN_CONSENSUS || result.priceConfidence >= MIN_CONSENSUS
HasConfidentResult(result) ==
  \/ 100 * result.itemNumberConfidence.num >= MIN_CONSENSUS * result.itemNumberConfidence.den
  \/ 100 * result.priceConfidence.num >= MIN_CONSENSUS * result.priceConfidence.den

\* variant: frames exactly FRAME_TIMEOUT old are kept
RetainedAfterAdd_KeepAtTimeout(frames, entry, t) ==
  LET pushed == Append(frames, entry)
      fresh == SelectSeq(pushed, LAMBDA f : t - f.timestamp <= FRAME_TIMEOUT)
  IN IF Len(fresh) > MAX_FRAMES THEN LastN(fresh, MAX_FRAMES) ELSE fresh

\* variant: slice(0, MAX_FRAMES) keeps the oldest instead of the newest
RetainedAfterAdd_KeepOldest(frames, entry, t) ==
  LET pushed == Append(frames, entry)
      fresh == SelectSeq(pushed, LAMBDA f : t - f.timestamp < FRAME_TIMEOUT)
  IN IF Len(fresh) > MAX_FRAMES THEN SubSeq(fresh, 1, MAX_FRAMES) ELSE fresh

\* framesRef.current after the push, the age filter and slice(-MAX_FRAMES)
RetainedAfterAdd(frames, entry, t) ==
  LET pushed == Append(frames, entry)
      fresh == SelectSeq(pushed, LAMBDA f : t - f.timestamp < FRAME_TIMEOUT)
  IN IF Len(fresh) > MAX_FRAMES THEN LastN(fresh, MAX_FRAMES) ELSE fresh

\* addFrame up to `await extractPriceTag(imageBlob)`
AddFrameCall ==
  /\ isProcessing' = TRUE
  /\ calls' = calls \cup {[id |-> nextCallId, stale |-> FALSE]}
  /\ nextCallId' = nextCallId + 1
  /\ UNCHANGED <<framesRef, resultsRef, frameCount, hasResult,
                 completed, lastReturn, now>>

\* variant: a failed extraction drops the stored consensus result
\* variant: every extraction is kept
KeepsExtraction_Any(extraction) == TRUE

\* `if (!extraction.success) { ...; return false; }`
KeepsExtraction(extraction) == extraction.success

AddFrameResume_FailureClears(call, extraction, t) ==
  /\ call \in calls
  /\ now' = t
  /\ calls' = calls \ {call}
  /\ IF ~extraction.success
     THEN /\ isProcessing' = FALSE
          /\ lastReturn' = "false"
          /\ lastOp' = "addFrameRejected"
          /\ resultsRef' = NULL
          /\ UNCHANGED <<framesRef, frameCount, hasResult, completed>>
     ELSE LET entry == [extraction |-> extraction, timestamp |-> t,
                        call |-> call.id, stale |-> call.stale]
              kept == RetainedAfterAdd(framesRef, entry, t)
              result == calculateConsensus(kept)
          IN /\ framesRef' = kept
             /\ frameCount' = Len(kept)
             /\ resultsRef' = result
             /\ hasResult' = HasConfidentResult(result)
             /\ isProcessing' = FALSE
             /\ lastReturn' = IF HasConfidentResult(result) THEN "true" ELSE "false"
             /\ completed' = Append(completed, entry)
             /\ lastOp' = "addFrameRetained"
  /\ UNCHANGED nextCallId

\* addFrame from the point where extractPriceTag resolved to extraction;
\* the rest of the function runs without another await
AddFrameResume(call, extraction, t) ==
  /\ call \in calls
  /\ now' = t
  /\ calls' = calls \ {call}
  /\ IF ~KeepsExtraction(extraction)
     THEN /\ isProcessing' = FALSE
          /\ lastReturn' = "false"
          /\ lastOp' = "addFrameRejected"
          /\ UNCHANGED <<framesRef, resultsRef, frameCount, hasResult, completed>>
     ELSE LET entry == [extraction |-> extraction, timestamp |-> t,
                        call |-> call.id, stale |-> call.stale]
              kept == RetainedAfterAdd(framesRef, entry, t)
              result == calculateConsensus(kept)
          IN /\ framesRef' = kept
             /\ frameCount' = Len(kept)
             /\ resultsRef' = result
             /\ hasResult' = HasConfidentResult(result)
             /\ isProcessing' = FALSE
             /\ lastReturn' = IF HasConfidentResult(result) THEN "true" ELSE "false"
             /\ completed' = Append(completed, entry)
             /\ lastOp' = "addFrameRetained"
  /\ UNCHANGED nextCallId

getResult == resultsRef

\* variant: the stored consensus result survives
reset_KeepsResult ==
  /\ framesRef' = <<>>
  /\ frameCount' = 0
  /\ hasResult' = FALSE
  /\ isProcessing' = FALSE
  /\ calls' = {[id |-> c.id, stale |-> TRUE] : c \in calls}
  /\ completed' = <<>>
  /\ UNCHANGED <<resultsRef, nextCallId, lastReturn, now>>

reset ==
  /\ framesRef' = <<>>
  /\ resultsRef' = NULL
  /\ frameCount' = 0
  /\ hasResult' = FALSE
  /\ isProcessing' = FALSE
  /\ calls' = {[id |-> c.id, stale |-> TRUE] : c \in calls}
  /\ completed' = <<>>
  /\ UNCHANGED <<nextCallId, lastReturn, now>>

\* variant: one retained frame is enough
hasEnoughFrames_One == Len(framesRef) >= 1

hasEnoughFrames == Len(framesRef) >= 2

-----------------------------------------------------------------------------
(* Initial state: the modules as loaded, the hooks as first rendered       *)

Init ==
  /\ stabilityBuffer = <<>>
  /\ frameBuffer = <<>>
  /\ lastAnalysis = NULL
  /\ prevTagDetected = "none"
  /\ accepted = <<>>
  /\ autoCapture = FALSE
  /\ stage = NULL
  /\ vote = NULL
  /\ ocr = NULL
  /\ picked = NULL
  /\ burst = NULL
  /\ drawn = NULL
  /\ syncInProgressRef = FALSE
  /\ lastSyncRef = 0
  /\ syncStatus = "idle"
  /\ lastSyncResult = NULL
  /\ syncCalls = {}
  /\ idleTimers = 0
  /\ syncClock = SYNC_COOLDOWN
  /\ syncReturned = NULL
  /\ nextSyncId = 1
  /\ nextFrameId = 1
  /\ addedSinceClear = <<>>
  /\ framesRef = <<>>
  /\ resultsRef = NULL
  /\ isProcessing = FALSE
  /\ frameCount = 0
  /\ hasResult = FALSE
  /\ calls = {}
  /\ nextCallId = 1
  /\ completed = <<>>
  /\ lastReturn = "none"
  /\ now = 0
  /\ isCapturing = FALSE
  /\ captureMode = "burst"
  /\ autoCaptureReady = FALSE
  /\ countdown = NULL
  /\ disabled = FALSE
  /\ captures = {}
  /\ finished = NULL
  /\ nextCaptureId = 1
  /\ lastOp = "init"

-----------------------------------------------------------------------------
(* Inputs                                                                  *)

\* rectangles findRectangles can produce on a FrameWidth x FrameHeight frame:
\* x and width multiples of 5, height within [0.1, 0.8] of the frame height
GoodCentered   == Rect(30, 15, 40, 20)   \* area 0.16, aspect 2.0
GoodCorner     == Rect(0, 0, 40, 20)     \* area 0.16, aspect 2.0
GoodSquare     == Rect(55, 5, 40, 40)    \* area 0.32, aspect 1.0
TooSmall       == Rect(45, 20, 10, 10)   \* area 0.02, aspect 1.0
TooWide        == Rect(20, 20, 60, 10)   \* area 0.12, aspect 6.0
TooTall        == Rect(40, 5, 20, 40)    \* area 0.16, aspect 0.5
MinArea        == Rect(40, 20, 15, 10)   \* area 0.03, aspect 1.5
MaxAspect      == Rect(30, 20, 40, 10)   \* area 0.08, aspect 4.0

LargePassing   == Rect(0, 5, 95, 40)     \* area 0.76, aspect 2.375, score < 0

CandidateRects ==
  {GoodCentered, GoodCorner, GoodSquare, TooSmall, TooWide, TooTall, MinArea, MaxAspect}

StageCandidateRects == CandidateRects \cup {LargePassing}

RECURSIVE SeqsUpTo(_, _)
SeqsUpTo(S, n) ==
  IF n = 0 THEN {<<>>}
  ELSE LET shorter == SeqsUpTo(S, n - 1)
       IN shorter \cup {Append(q, e) : q \in shorter, e \in S}

CandidateSeqs == SeqsUpTo(StageCandidateRects, MaxCandidates)
AnalyzerCandidateSeqs == SeqsUpTo(CandidateRects, MaxAnalyzerCandidates)

\* values of findTagByEdgeDensity: null, or the padded bounds of a 4 x 4 blob
\* of grid cells (confidence 16 / 100)
DensityBlob ==
  [x |-> 25, y |-> 10, width |-> 50, height |-> 30, confidence |-> [num |-> 16, den |-> 100]]

DensityResults == {NULL, DensityBlob}

\* sets of grid cells with density >= 0.1
CellBlock(x0, y0, w, h) == {[x |-> x, y |-> y] : x \in x0..(x0 + w - 1), y \in y0..(y0 + h - 1)}

DenseCellSets ==
  {{},                                          \* no edges
   CellBlock(4, 4, 3, 1),                       \* three cells: too small
   CellBlock(3, 3, 4, 4),                       \* the blob of DensityBlob
   CellBlock(0, 0, 2, 2),                       \* top-left corner
   CellBlock(8, 8, 2, 2),                       \* bottom-right corner
   CellBlock(0, 5, 10, 1),                      \* a full row
   CellBlock(1, 1, 2, 2) \cup CellBlock(5, 5, 3, 2),   \* two regions
   CellBlock(1, 1, 2, 2) \cup CellBlock(6, 6, 2, 2)}   \* two regions of one size

BlurScores == {14, 15}

\* analyses handed to addToFrameBuffer when the buffer is exercised alone
SampleAnalyses ==
  {FrameAnalysisOf(14, NULL, 0),
   FrameAnalysisOf(60, DensityBlob, StabilityUnit \div 6)}

-----------------------------------------------------------------------------
(* Specification of the frame buffer alone                                 *)

FB_AddToFrameBuffer ==
  /\ nextFrameId <= MaxFrameAdds
  /\ \E analysis \in SampleAnalyses : AddToFrameBuffer(analysis)
  /\ lastOp' = "addToFrameBuffer"
  /\ UNCHANGED <<analyzerVars, stageVars, consensusVars, cameraVars,
                 syncVars>>

FB_ClearFrameBuffer ==
  /\ ClearFrameBuffer
  /\ lastOp' = "clearFrameBuffer"
  /\ UNCHANGED <<analyzerVars, stageVars, consensusVars, cameraVars,
                 syncVars>>

NextFrameBuffer == FB_AddToFrameBuffer \/ FB_ClearFrameBuffer

SpecFrameBuffer == Init /\ [][NextFrameBuffer]_vars

-----------------------------------------------------------------------------
(* Specification of best-frame selection over a buffer of mixed frames     *)

\* analyses of the buffered frames: blurred and sharp, with and without a
\* detected tag
BestFrameAnalyses ==
  {FrameAnalysisOf(14, NULL, 0),
   FrameAnalysisOf(90, NULL, 0),
   FrameAnalysisOf(60, DensityBlob, StabilityUnit \div 6),
   FrameAnalysisOf(70, DensityBlob, StabilityUnit \div 6)}

BF_AddToFrameBuffer ==
  /\ nextFrameId <= MaxBestFrameAdds
  /\ \E analysis \in BestFrameAnalyses : AddToFrameBuffer(analysis)
  /\ picked' = NULL
  /\ lastOp' = "addToFrameBuffer"
  /\ UNCHANGED <<stage, vote, ocr, burst, drawn, analyzerVars, consensusVars, cameraVars,
                 syncVars>>

BF_GetBestFrame ==
  /\ picked' = [fn |-> "getBestFrame", buffer |-> frameBuffer,
                frame |-> getBestFrame]
  /\ frameBuffer' = BufferAfterGetBestFrame(frameBuffer)
  /\ lastOp' = "getBestFrame"
  /\ UNCHANGED <<stage, vote, ocr, burst, drawn, nextFrameId, addedSinceClear,
                 analyzerVars, consensusVars, cameraVars,
                 syncVars>>

BF_GetBestFrames ==
  /\ \E count \in 0..MaxBurstCount :
       picked' = [fn |-> "getBestFrames", buffer |-> frameBuffer,
                  count |-> count, frames |-> getBestFrames(count)]
  /\ frameBuffer' = BufferAfterGetBestFrames(frameBuffer)
  /\ lastOp' = "getBestFrames"
  /\ UNCHANGED <<stage, vote, ocr, burst, drawn, nextFrameId, addedSinceClear,
                 analyzerVars, consensusVars, cameraVars,
                 syncVars>>

NextBestFrame == BF_AddToFrameBuffer \/ BF_GetBestFrame \/ BF_GetBestFrames

SpecBestFrame == Init /\ [][NextBestFrame]_vars

-----------------------------------------------------------------------------
(* Specification of the frame analyzer alone                               *)

AN_AnalyzeFrame ==
  /\ \E blurScore \in BlurScores, rectangles \in AnalyzerCandidateSeqs,
        densityResult \in DensityResults :
          AnalyzeFrame(blurScore, rectangles, densityResult)
  /\ lastOp' = "analyzeFrame"
  /\ UNCHANGED <<bufferVars, stageVars, consensusVars, cameraVars,
                 syncVars>>

AN_ResetStabilityTracking ==
  /\ ResetStabilityTracking
  /\ lastOp' = "resetStabilityTracking"
  /\ UNCHANGED <<bufferVars, stageVars, consensusVars, cameraVars,
                 syncVars>>

NextAnalyzer == AN_AnalyzeFrame \/ AN_ResetStabilityTracking

SpecAnalyzer == Init /\ [][NextAnalyzer]_vars

-----------------------------------------------------------------------------
(* Specification of the frame analyzer on the pixels of its canvases       *)

\* the fields of an analysis other than stability
PixelFields(analysis) ==
  [blurScore |-> analysis.blurScore, isSharp |-> analysis.isSharp,
   tagDetected |-> analysis.tagDetected, tagBounds |-> analysis.tagBounds]

PX_AnalyzeFrame ==
  /\ IF drawn = NULL THEN TRUE ELSE drawn.count < MaxPixelFrames
  /\ \E image \in 1..Len(Images) :
       /\ analyzeFrame(image)
       /\ drawn' = [image |-> image,
                    count |-> IF drawn = NULL THEN 1 ELSE drawn.count + 1,
                    analyses |->
                      [i \in 1..Len(Images) |->
                         (IF drawn = NULL THEN {} ELSE drawn.analyses[i])
                           \cup (IF i = image THEN {lastAnalysis'} ELSE {})]]
  /\ lastOp' = "analyzeFrame"
  /\ UNCHANGED <<stage, vote, ocr, picked, burst, bufferVars, consensusVars, cameraVars,
                 syncVars>>

PX_ResetStabilityTracking ==
  /\ ResetStabilityTracking
  /\ lastOp' = "resetStabilityTracking"
  /\ UNCHANGED <<bufferVars, stageVars, consensusVars, cameraVars,
                 syncVars>>

NextPixels == PX_AnalyzeFrame \/ PX_ResetStabilityTracking

SpecPixels == Init /\ [][NextPixels]_vars

-----------------------------------------------------------------------------
(* Specification of the tag-region selection alone                         *)

RS_FindTagBounds ==
  /\ stage = NULL
  /\ \E rectangles \in CandidateSeqs, dense \in DenseCellSets :
        LET densityResult == findTagByEdgeDensity(dense, FrameWidth, FrameHeight)
        IN stage' = [rectangles |-> rectangles,
                     dense |-> dense,
                     densityResult |-> densityResult,
                     bestRect |-> SelectRectangle(rectangles, FrameWidth, FrameHeight),
                     tagBounds |-> findTagBounds(rectangles, densityResult,
                                                 FrameWidth, FrameHeight)]
  /\ lastOp' = "findTagBounds"
  /\ UNCHANGED <<vote, ocr, picked, burst, drawn, analyzerVars, bufferVars, consensusVars, cameraVars,
                 syncVars>>

NextRectangles == RS_FindTagBounds

SpecRectangles == Init /\ [][NextRectangles]_vars

-----------------------------------------------------------------------------
(* Specification of the consensus engine with several calls in flight      *)

\* values extractPriceTag resolves to
ReadA ==
  [success |-> TRUE, confidence |-> 90, itemNumber |-> Some("1234567"),
   price |-> Some(1699), priceEnding |-> Some(<<".", "9", "9">>),
   unitPrice |-> NULL, unitMeasure |-> NULL,
   description |-> Some("KIRKLAND OLIVE"), hasAsterisk |-> TRUE]

ReadB ==
  [success |-> TRUE, confidence |-> 80, itemNumber |-> Some("7654321"),
   price |-> Some(1799), priceEnding |-> Some(<<".", "9", "9">>),
   unitPrice |-> NULL, unitMeasure |-> NULL,
   description |-> NULL, hasAsterisk |-> FALSE]

ReadC ==
  [success |-> TRUE, confidence |-> 80, itemNumber |-> Some("1234567"),
   price |-> Some(1899), priceEnding |-> Some(<<".", "9", "9">>),
   unitPrice |-> NULL, unitMeasure |-> NULL,
   description |-> Some("KIRKLAND OLIVE"), hasAsterisk |-> TRUE]

ReadNoPrice ==
  [success |-> FALSE, confidence |-> 27, itemNumber |-> Some("1234567"),
   price |-> NULL, priceEnding |-> NULL,
   unitPrice |-> NULL, unitMeasure |-> NULL,
   description |-> NULL, hasAsterisk |-> FALSE]

ReadNoItem ==
  [success |-> FALSE, confidence |-> 45, itemNumber |-> NULL,
   price |-> Some(1699), priceEnding |-> Some(<<".", "9", "9">>),
   unitPrice |-> NULL, unitMeasure |-> NULL,
   description |-> NULL, hasAsterisk |-> FALSE]

\* a read the recognizer has no confidence in
ReadUnsure ==
  [success |-> TRUE, confidence |-> 0, itemNumber |-> Some("7654321"),
   price |-> Some(1899), priceEnding |-> Some(<<".", "9", "9">>),
   unitPrice |-> NULL, unitMeasure |-> NULL,
   description |-> NULL, hasAsterisk |-> FALSE]

\* the recognition threw
ReadFailed == FailedExtraction([isError |-> TRUE, text |-> "Worker terminated"])

\* what extractPriceTag can resolve to for the blob of the id-th addFrame
\* call: the read of the tag in that frame, and for the blurred blobs a
\* read that lost the price or the item number, or a failed recognition
Extractions(id) ==
  CASE id % 3 = 1 -> {ReadA}
    [] id % 3 = 2 -> {ReadB, ReadNoPrice, ReadNoItem, ReadFailed}
    [] OTHER -> {ReadC}

\* the same when one call is made at a time; there every third blob can
\* also give a read without confidence
SequentialExtractions(id) ==
  Extractions(id) \cup (IF id % 3 = 0 THEN {ReadUnsure} ELSE {})

\* values Date.now() can return: the clock does not go backwards
ClockReadings == {now + k * TickMs : k \in 0..(MaxTicks - now \div TickMs)}

CE_AddFrameCall ==
  /\ nextCallId <= MaxCalls
  /\ Cardinality(calls) < MaxPending
  /\ AddFrameCall
  /\ lastOp' = "addFrameCall"
  /\ UNCHANGED <<analyzerVars, bufferVars, stageVars, cameraVars,
                 syncVars>>

CE_AddFrameResume ==
  /\ \E call \in calls, t \in ClockReadings :
       \E extraction \in Extractions(call.id) : AddFrameResume(call, extraction, t)
  /\ UNCHANGED <<analyzerVars, bufferVars, stageVars, cameraVars,
                 syncVars>>

NextConsensus == CE_AddFrameCall \/ CE_AddFrameResume

SpecConsensus == Init /\ [][NextConsensus]_vars

-----------------------------------------------------------------------------
(* Specification of the consensus engine fed one frame at a time, the      *)
(* caller awaiting each addFrame before the next, and reset at any time    *)

SQ_AddFrameCall ==
  /\ nextCallId <= MaxCalls
  /\ calls = {}
  /\ AddFrameCall
  /\ lastOp' = "addFrameCall"
  /\ UNCHANGED <<analyzerVars, bufferVars, stageVars, cameraVars,
                 syncVars>>

SQ_AddFrameResume ==
  /\ \E call \in calls, t \in ClockReadings :
       \E extraction \in SequentialExtractions(call.id) : AddFrameResume(call, extraction, t)
  /\ UNCHANGED <<analyzerVars, bufferVars, stageVars, cameraVars,
                 syncVars>>

SQ_Reset ==
  /\ reset
  /\ lastOp' = "reset"
  /\ UNCHANGED <<analyzerVars, bufferVars, stageVars, cameraVars,
                 syncVars>>

NextSequential == SQ_AddFrameCall \/ SQ_AddFrameResume \/ SQ_Reset

SpecSequential == Init /\ [][NextSequential]_vars

-----------------------------------------------------------------------------
(* Specification of the consensus vote alone                               *)

\* a successful extraction: extractPriceTag found an item number and a price
Read(confidence, itemNumber, cents, description, hasAsterisk) ==
  [success |-> TRUE, confidence |-> confidence, itemNumber |-> Some(itemNumber),
   price |-> Some(cents), priceEnding |-> Some(PriceEndingOf(cents % 100)),
   unitPrice |-> NULL, unitMeasure |-> NULL,
   description |-> description, hasAsterisk |-> hasAsterisk]

\* extractions the retained frames are drawn from
VoteReads ==
  {Read(90, "1234567", 1699, Some("KIRKLAND OLIVE"), TRUE),
   Read(80, "1234567", 1699, NULL, FALSE),
   Read(95, "7654321", 1799, Some("OLIVE OIL"), TRUE),
   Read(90, "7654321", 1705, Some("OLIVE OIL"), FALSE),
   Read(85, "1234567", 1700, Some("KIRKLAND OLIVE"), FALSE),
   Read(0, "7654321", 1699, Some("OLIVE OIL"), TRUE),
   Read(0, "1234567", 1700, NULL, FALSE)}

\* variant: the price Map entry is the first frame of its group itself, so
\* `current.weight += confidence` accumulates into that frame
FramesAfterConsensus_Aliased(frames) ==
  [i \in 1..Len(frames) |->
     IF /\ frames[i].extraction.price # NULL
        /\ \A j \in 1..(i - 1) : frames[j].extraction.price # frames[i].extraction.price
     THEN [frames[i] EXCEPT !.extraction.confidence =
             VoteWeight(frames, "price", frames[i].extraction.price)]
     ELSE frames[i]]

\* the array passed to calculateConsensus once it has returned: the function
\* reads frames and writes only to its own Maps and locals
FramesAfterConsensus(frames) == frames

\* retained lists of at most MaxVoteFrames frames, timestamped on arrival
VoteFrameLists ==
  {[i \in 1..Len(q) |-> [extraction |-> q[i], timestamp |-> i]] :
     q \in SeqsUpTo(VoteReads, MaxVoteFrames)}

\* calculateConsensus(framesRef.current)
VT_CalculateConsensus ==
  /\ vote = NULL
  /\ \E frames \in VoteFrameLists :
        vote' = [input |-> frames,
                 frames |-> FramesAfterConsensus(frames),
                 result |-> calculateConsensus(frames),
                 again |-> NULL]
  /\ lastOp' = "calculateConsensus"
  /\ UNCHANGED <<stage, ocr, picked, burst, drawn, analyzerVars, bufferVars, consensusVars, cameraVars,
                 syncVars>>

\* calculateConsensus on the same list once more
VT_Recalculate ==
  /\ vote # NULL
  /\ vote.again = NULL
  /\ vote' = [vote EXCEPT !.again = Some(calculateConsensus(vote.frames)),
                          !.frames = FramesAfterConsensus(vote.frames)]
  /\ lastOp' = "recalculate"
  /\ UNCHANGED <<stage, ocr, picked, burst, drawn, analyzerVars, bufferVars, consensusVars, cameraVars,
                 syncVars>>

NextVoting == VT_CalculateConsensus \/ VT_Recalculate

SpecVoting == Init /\ [][NextVoting]_vars

-----------------------------------------------------------------------------
(* app/page.tsx : handleBurstCapture                                       *)

\* `r && r.success && r.itemNumber && r.price !== null`
ValidResult(r) ==
  /\ r # NULL
  /\ r.success
  /\ r.itemNumber # NULL /\ r.itemNumber # Some("")
  /\ r.price # NULL

\* the arguments of buildOfflineResult, the entry of the decision layer
buildOfflineResult(itemNumber, price, priceEnding, hasAsterisk, description, unitPrice, unitMeasure, confidence) ==
  [itemNumber |-> itemNumber, price |-> price, priceEnding |-> priceEnding,
   hasAsterisk |-> hasAsterisk, description |-> description,
   unitPrice |-> unitPrice, unitMeasure |-> unitMeasure,
   confidence |-> confidence]

\* validResults.find(r => r.itemNumber === bestItemNumber &&
\*                        r.price === bestPrice) || validResults[0]
BestResult(validResults, bestItemNumber, bestPrice) ==
  LET Found(both) == IF both = {} THEN validResults[1] ELSE validResults[MinOf(both)]
  IN Found({i \in 1..Len(validResults) :
              /\ validResults[i].itemNumber = bestItemNumber
              /\ validResults[i].price = bestPrice})

\* the two votes by count over the valid results: every Map is filled in
\* the order of the results and read back with `count > max`, starting
\* from '' and 0
BurstVote(validResults) ==
  LET Counts(frames, field, keys) ==
        VoteWinner(keys,
                   [i \in 1..Len(keys) |-> VoteCount(frames, field, keys[i])],
                   1, [key |-> Some(IF field = "price" THEN 0 ELSE ""), score |-> 0])
      Winner(frames, field) ==
        Counts(frames, field, VoteKeys(frames, field, Len(frames)))
      Votes(frames) ==
        [itemNumber |-> Winner(frames, "itemNumber").key,
         price |-> Winner(frames, "price").key]
  IN Votes([i \in 1..Len(validResults) |-> [extraction |-> validResults[i]]])

\* the page state handleBurstCapture ends in and the record it builds, for
\* the results runOcr gave for the blobs; persisted is FALSE when
\* getCachedHistory or saveResult throws
handleBurstCapture(warehouseId, ocrResults, persisted) ==
  IF warehouseId = NULL THEN [state |-> "warehouse-select", record |-> NULL]
  ELSE
    LET Built(voted, bestResult) ==
          buildOfflineResult(voted.itemNumber, voted.price, bestResult.priceEnding,
                             bestResult.hasAsterisk, bestResult.description,
                             bestResult.unitPrice, bestResult.unitMeasure,
                             bestResult.confidence)
        Voted(validResults, voted) ==
          Built(voted, BestResult(validResults, voted.itemNumber, voted.price))
        Finish(validResults) ==
          IF Len(validResults) = 0 THEN [state |-> "error", record |-> NULL]
          ELSE IF ~persisted THEN [state |-> "error", record |-> NULL]
          ELSE [state |-> "result",
                record |-> Some(Voted(validResults, BurstVote(validResults)))]
    IN Finish(SelectSeq(ocrResults, ValidResult))

-----------------------------------------------------------------------------
(* hooks/useBackgroundSync.ts : performSync                                *)

\* a SyncResult that reports no upload: success false and one error message
SyncRefused(message) == [success |-> FALSE, thrown |-> FALSE, errors |-> <<message>>]

\* what `await syncPendingObservations()` (syncAll in the later version of
\* the hook) can do: resolve with a result, or reject with an Error or
\* with another value
UploadOutcomes ==
  {[settled |-> "resolved", result |-> [success |-> TRUE, thrown |-> FALSE, errors |-> <<>>]],
   [settled |-> "resolved",
    result |-> [success |-> FALSE, thrown |-> FALSE, errors |-> <<"HTTP 500">>]],
   [settled |-> "rejected",
    result |-> [success |-> FALSE, thrown |-> TRUE, errors |-> <<"Failed to fetch">>]],
   [settled |-> "rejected",
    result |-> [success |-> FALSE, thrown |-> TRUE, errors |-> <<"Unknown error">>]]}

\* values Date.now() can return: the clock does not go backwards
SyncTick == SYNC_COOLDOWN \div 2
SyncClockReadings ==
  {syncClock + k * SyncTick :
     k \in 0..(MaxSyncTicks - (syncClock - SYNC_COOLDOWN) \div SyncTick)}

\* variant: the flag is cleared on the return path only
FlagAfterSync_NotWhenThrown(outcome) == outcome.settled = "rejected"

\* syncInProgressRef.current after the finally block
FlagAfterSync(outcome) == FALSE

\* performSync from its entry to its return or to its first await
PerformSyncEnter ==
  /\ nextSyncId <= MaxSyncCalls
  /\ nextSyncId' = nextSyncId + 1
  /\ IF syncInProgressRef
     THEN /\ syncReturned' = [id |-> nextSyncId, running |-> Cardinality(syncCalls),
                              uploads |-> 0,
                              result |-> SyncRefused("Sync already in progress")]
          /\ lastOp' = "performSyncBusy"
          /\ UNCHANGED <<syncInProgressRef, lastSyncRef, syncStatus, lastSyncResult,
                         syncCalls, idleTimers, syncClock>>
     ELSE \E t \in SyncClockReadings :
            /\ syncClock' = t
            /\ IF t - lastSyncRef < SYNC_COOLDOWN
               THEN /\ syncReturned' = [id |-> nextSyncId,
                                        running |-> Cardinality(syncCalls),
                                        uploads |-> 0,
                                        result |-> SyncRefused("Sync cooldown active")]
                    /\ lastOp' = "performSyncCooldown"
                    /\ UNCHANGED <<syncInProgressRef, lastSyncRef, syncStatus,
                                   lastSyncResult, syncCalls, idleTimers>>
               ELSE /\ syncInProgressRef' = TRUE
                    /\ syncStatus' = "syncing"
                    /\ syncCalls' = syncCalls \cup
                         {[id |-> nextSyncId, now |-> t,
                           running |-> Cardinality(syncCalls),
                           at |-> "syncPendingObservations", result |-> NULL]}
                    /\ lastOp' = "performSyncUpload"
                    /\ UNCHANGED <<lastSyncRef, lastSyncResult, idleTimers, syncReturned>>

\* performSync resumed after `await syncPendingObservations()`: up to
\* `await refreshPendingCount()` when it resolved, through catch and
\* finally to the return when it rejected
PerformSyncUploaded(call, outcome) ==
  /\ call \in syncCalls
  /\ call.at = "syncPendingObservations"
  /\ lastSyncResult' = Some(outcome.result)
  /\ IF outcome.settled = "resolved"
     THEN /\ lastSyncRef' = call.now
          /\ syncStatus' = IF outcome.result.success THEN "success" ELSE "error"
          /\ syncCalls' = (syncCalls \ {call}) \cup
               {[call EXCEPT !.at = "refreshPendingCount", !.result = Some(outcome)]}
          /\ lastOp' = "performSyncRefresh"
          /\ UNCHANGED <<syncInProgressRef, idleTimers, syncReturned>>
     ELSE /\ syncStatus' = "error"
          /\ idleTimers' = idleTimers + 1
          /\ syncCalls' = syncCalls \ {call}
          /\ syncInProgressRef' = FlagAfterSync(outcome)
          /\ syncReturned' = [id |-> call.id, running |-> call.running, uploads |-> 1,
                              result |-> outcome.result]
          /\ lastOp' = "performSyncThrew"
          /\ UNCHANGED lastSyncRef
  /\ UNCHANGED <<syncClock, nextSyncId>>

\* performSync resumed after `await refreshPendingCount()`, which catches
\* its own errors: the idle timer, the return and the finally block
PerformSyncRefreshed(call) ==
  /\ call \in syncCalls
  /\ call.at = "refreshPendingCount"
  /\ idleTimers' = idleTimers + 1
  /\ syncCalls' = syncCalls \ {call}
  /\ syncInProgressRef' = FlagAfterSync(call.result.some)
  /\ syncReturned' = [id |-> call.id, running |-> call.running, uploads |-> 1,
                      result |-> call.result.some.result]
  /\ lastOp' = "performSyncReturned"
  /\ UNCHANGED <<lastSyncRef, syncStatus, lastSyncResult, syncClock, nextSyncId>>

\* a timer set by performSync fires: setSyncStatus('idle')
SyncIdleTimerFires ==
  /\ idleTimers > 0
  /\ idleTimers' = idleTimers - 1
  /\ syncStatus' = "idle"
  /\ lastOp' = "syncIdleTimer"
  /\ UNCHANGED <<syncInProgressRef, lastSyncRef, lastSyncResult, syncCalls,
                 syncClock, syncReturned, nextSyncId>>

-----------------------------------------------------------------------------
(* Specification of the background sync hook alone                         *)

SY_PerformSync ==
  /\ PerformSyncEnter
  /\ UNCHANGED <<analyzerVars, bufferVars, stageVars, consensusVars, cameraVars>>

SY_PerformSyncUploaded ==
  /\ \E call \in syncCalls, outcome \in UploadOutcomes : PerformSyncUploaded(call, outcome)
  /\ UNCHANGED <<analyzerVars, bufferVars, stageVars, consensusVars, cameraVars>>

SY_PerformSyncRefreshed ==
  /\ \E call \in syncCalls : PerformSyncRefreshed(call)
  /\ UNCHANGED <<analyzerVars, bufferVars, stageVars, consensusVars, cameraVars>>

SY_SyncIdleTimerFires ==
  /\ SyncIdleTimerFires
  /\ UNCHANGED <<analyzerVars, bufferVars, stageVars, consensusVars, cameraVars>>

NextSync ==
  \/ SY_PerformSync
  \/ SY_PerformSyncUploaded
  \/ SY_PerformSyncRefreshed
  \/ SY_SyncIdleTimerFires

SpecSync == Init /\ [][NextSync]_vars

-----------------------------------------------------------------------------
(* Specification of the burst capture path alone                           *)

\* what runOcr gives for the frames of a burst: reads that differ in item
\* number, price and confidence, a read that lost its price, and a failed
\* recognition
BurstReads ==
  {Read(90, "1234567", 997, Some("KIRKLAND OLIVE"), TRUE),
   Read(30, "7654321", 1249, Some("OLIVE OIL"), FALSE),
   Read(30, "1234561", 1249, NULL, FALSE),
   Read(80, "1234567", 1249, Some("KIRKLAND OLIVE"), TRUE),
   ReadNoPrice,
   ReadFailed}

BU_HandleBurstCapture ==
  /\ burst = NULL
  /\ \E warehouseId \in {NULL, Some(1)}, persisted \in BOOLEAN,
        ocrResults \in SeqsUpTo(BurstReads, MaxBurstFrames) :
       burst' = [warehouseId |-> warehouseId, ocrResults |-> ocrResults,
                 persisted |-> persisted,
                 outcome |-> handleBurstCapture(warehouseId, ocrResults, persisted)]
  /\ lastOp' = "handleBurstCapture"
  /\ UNCHANGED <<stage, vote, ocr, picked, drawn, analyzerVars, bufferVars,
                 consensusVars, cameraVars,
                 syncVars>>

NextBurst == BU_HandleBurstCapture

SpecBurst == Init /\ [][NextBurst]_vars

-----------------------------------------------------------------------------
(* Specification of the extraction functions of clientOcr.ts               *)

RECURSIVE JoinWith(_, _, _)
JoinWith(parts, n, separator) ==
  IF n = 0 THEN ""
  ELSE IF n = 1 THEN parts[1]
  ELSE JoinWith(parts, n - 1, separator) \o separator \o parts[n]

\* texts of at most MaxTextTokens tokens separated by blanks
TokenTexts(tokens) ==
  {JoinWith(q, Len(q), " ") : q \in SeqsUpTo(tokens, MaxTextTokens)}

ItemNumberTokens ==
  {"1234567", "7654321", "99887766", "654321", "12345", "123456789",
   "SKU1234567", "16.99"}

PriceTokens ==
  {"$12.99", "$9.97", "12,49", "$ 12.50", "12345.99", "9.5", "REG", "0.25/OZ"}

\* the example of the price rule next to the token texts
PriceTexts == TokenTexts(PriceTokens) \cup {"REG $12.99 SPECIAL $9.97"}

\* what the recognizer reads on a tag, part by part; "" is a part it did
\* not read
WordParts ==
  {"", "KIRKLAND OLIVE OIL", "SALE KRFT ORGANIC",
   "KIRKLAND ORGANIC EXTRA VIRGIN OLIVE BOTTLE"}
ItemParts == {"", "1234567", "99887766"}
PriceParts == {"", "16.99", "$12.99", "0.00"}
UnitParts == {"", "0.25/OZ", "1,50 / lb"}
MarkerParts == {"", "*", "x", "Disk"}
EngineConfidences == {0, 85, 90}
Layouts == {"line", "stacked"}

TagParts ==
  [words : WordParts, item : ItemParts, price : PriceParts, unit : UnitParts,
   marker : MarkerParts, layout : Layouts]

NonEmptyPart(part) == part # ""

\* the text of a tag read part by part: on one line, or marker and price
\* first with one part per line
TextOf(parts) ==
  LET inLine == SelectSeq(<<parts.words, parts.item, parts.price, parts.unit,
                             parts.marker>>, NonEmptyPart)
      stacked == SelectSeq(<<parts.marker, parts.price, parts.unit, parts.item,
                              parts.words>>, NonEmptyPart)
  IN IF parts.layout = "line"
     THEN JoinWith(inLine, Len(inLine), " ")
     ELSE JoinWith(stacked, Len(stacked), "\n")

\* values the steps before the parsing can throw: Errors, and a rejection
\* with a plain string
ThrownValues ==
  {Thrown(TRUE, "Failed to load image"), Thrown(TRUE, "Worker terminated"),
   Thrown(FALSE, "recognize rejected")}

EX_ExtractItemNumber ==
  /\ ocr = NULL
  /\ \E text \in TokenTexts(ItemNumberTokens) :
       ocr' = [fn |-> "extractItemNumber", text |-> text,
               result |-> extractItemNumber(text)]
  /\ lastOp' = "extractItemNumber"
  /\ UNCHANGED <<stage, vote, picked, burst, drawn, analyzerVars, bufferVars, consensusVars,
                 cameraVars,
                 syncVars>>

EX_ExtractPrice ==
  /\ ocr = NULL
  /\ \E text \in PriceTexts :
       ocr' = [fn |-> "extractPrice", text |-> text, result |-> extractPrice(text)]
  /\ lastOp' = "extractPrice"
  /\ UNCHANGED <<stage, vote, picked, burst, drawn, analyzerVars, bufferVars, consensusVars,
                 cameraVars,
                 syncVars>>

\* extractPriceTag on a blob whose recognition succeeds
EX_ExtractPriceTag ==
  /\ ocr = NULL
  /\ \E parts \in TagParts, confidence \in EngineConfidences :
       LET recognition == [text |-> TextOf(parts), confidence |-> confidence]
       IN ocr' = [fn |-> "extractPriceTag", parts |-> parts,
                  recognition |-> recognition,
                  result |-> extractPriceTag(recognition)]
  /\ lastOp' = "extractPriceTag"
  /\ UNCHANGED <<stage, vote, picked, burst, drawn, analyzerVars, bufferVars, consensusVars,
                 cameraVars,
                 syncVars>>

\* extractPriceTag on a blob for which a step before the parsing throws
EX_ExtractPriceTagThrows ==
  /\ ocr = NULL
  /\ \E recognition \in ThrownValues :
       ocr' = [fn |-> "extractPriceTag", parts |-> NULL,
               recognition |-> recognition,
               result |-> extractPriceTag(recognition)]
  /\ lastOp' = "extractPriceTagThrows"
  /\ UNCHANGED <<stage, vote, picked, burst, drawn, analyzerVars, bufferVars, consensusVars,
                 cameraVars,
                 syncVars>>

NextExtraction ==
  \/ EX_ExtractItemNumber
  \/ EX_ExtractPrice
  \/ EX_ExtractPriceTag
  \/ EX_ExtractPriceTagThrows

SpecExtraction == Init /\ [][NextExtraction]_vars

-----------------------------------------------------------------------------
(* Specification of the camera component with the analyzer and the buffer  *)

CameraRectangles == {<<>>, <<GoodCentered>>}

CAM_AnalysisLoopFrame ==
  /\ nextFrameId <= MaxCameraFrames
  /\ \E rectangles \in CameraRectangles : AnalysisLoopFrame(15, rectangles, NULL)
  /\ lastOp' = "analysisLoopFrame"
  /\ UNCHANGED <<stageVars, consensusVars,
                 syncVars>>

CAM_CountdownFires ==
  /\ nextCaptureId <= MaxCaptures
  /\ CountdownFires
  /\ lastOp' = "doCaptureEnter"
  /\ UNCHANGED <<analyzerVars, bufferVars, stageVars, consensusVars,
                 syncVars>>

CAM_ManualCapture ==
  /\ nextCaptureId <= MaxCaptures
  /\ ManualCapture
  /\ lastOp' = "doCaptureEnter"
  /\ UNCHANGED <<analyzerVars, bufferVars, stageVars, consensusVars,
                 syncVars>>

CAM_DoCaptureResume ==
  /\ \E capture \in captures, ok \in BOOLEAN : DoCaptureResume(capture, ok)
  /\ UNCHANGED <<lastAnalysis, prevTagDetected, autoCapture, stageVars, consensusVars,
                 syncVars>>

CAM_ToggleCaptureMode ==
  /\ ToggleCaptureMode
  /\ lastOp' = "toggleCaptureMode"
  /\ UNCHANGED <<nextFrameId, stageVars, consensusVars,
                 syncVars>>

CAM_BackToCamera ==
  /\ BackToCamera
  /\ lastOp' = "backToCamera"
  /\ UNCHANGED <<analyzerVars, bufferVars, stageVars, consensusVars,
                 syncVars>>

NextCamera ==
  \/ CAM_AnalysisLoopFrame
  \/ CAM_CountdownFires
  \/ CAM_ManualCapture
  \/ CAM_DoCaptureResume
  \/ CAM_ToggleCaptureMode
  \/ CAM_BackToCamera

SpecCamera == Init /\ [][NextCamera]_vars

-----------------------------------------------------------------------------
(* Claims on the frame buffer                                              *)

\* C1: the frame buffer holds exactly the last min(k, 10) frames added since
\* the most recent clear, in insertion order (k = adds since that clear)
C1_BufferIsLastTen ==
  LET k == Len(addedSinceClear)
  IN /\ Len(frameBuffer) = Min(k, 10)
     /\ \A i \in 1..Len(frameBuffer) :
          frameBuffer[i] = addedSinceClear[k - Len(frameBuffer) + i]

\* eleven frames were added since the last clear: the first one is gone
C1_Witness ==
  /\ Len(addedSinceClear) = 11
  /\ Len(frameBuffer) = 10
  /\ frameBuffer[1] = addedSinceClear[2]
  /\ \A i \in 1..Len(frameBuffer) : frameBuffer[i] # addedSinceClear[1]

-----------------------------------------------------------------------------
(* Claims on the frame analyzer                                            *)

\* C6 as stated: after a frame with no detected region, the next analyzeFrame
\* call returns stability 0
C6_NextStabilityZero ==
  (lastOp = "analyzeFrame" /\ prevTagDetected = "no") => lastAnalysis.stability = 0

\* C6 amended: a frame with no detected region returns tagBounds null and
\* stability 0 on that call; the next call returns 0 if it has no region
\* either and the one-entry partial credit (1/3)*0.5 if it has one
C6_NoRegionStability ==
  lastOp = "analyzeFrame" =>
    /\ ~lastAnalysis.tagDetected =>
         lastAnalysis.tagBounds = NULL /\ lastAnalysis.stability = 0
    /\ prevTagDetected = "no" =>
         lastAnalysis.stability =
           IF lastAnalysis.tagDetected THEN StabilityUnit \div 6 ELSE 0

\* a frame with a region that follows a frame without one
C6_Witness ==
  /\ lastOp = "analyzeFrame"
  /\ prevTagDetected = "no"
  /\ lastAnalysis.tagDetected
  /\ lastAnalysis.stability = StabilityUnit \div 6

\* C7: the stability buffer never has more than 3 entries, they are the most
\* recent accepted regions, and it is empty right after a frame with no
\* detected region and right after resetStabilityTracking
C7_StabilityBufferBounded ==
  /\ Len(stabilityBuffer) <= 3
  /\ stabilityBuffer = LastN(accepted, 3)
  /\ (lastOp = "analyzeFrame" /\ ~lastAnalysis.tagDetected) => stabilityBuffer = <<>>
  /\ lastOp = "resetStabilityTracking" => stabilityBuffer = <<>>

\* a fourth consecutive region evicted the oldest of three different ones
C7_Witness ==
  /\ Len(accepted) = 4
  /\ Len(stabilityBuffer) = 3
  /\ accepted[1] # accepted[2]
  /\ stabilityBuffer[1] = accepted[2]

\* C8: with k = 1 or 2 regions in the buffer after the push, analyzeFrame
\* returns exactly (k/3)*0.5; from the third consecutive detection on it
\* returns the variance-based value
C8_PartialCredit ==
  (lastOp = "analyzeFrame" /\ lastAnalysis.tagDetected) =>
    /\ Len(accepted) = 1 => lastAnalysis.stability = StabilityUnit \div 6
    /\ Len(accepted) = 2 => lastAnalysis.stability = 2 * (StabilityUnit \div 6)
    /\ Len(accepted) >= 3 =>
         lastAnalysis.stability = VarianceStability(LastN(accepted, 3))

\* two different regions in a row: partial credit 2/6, although the variance
\* formula on the two entries gives another value
C8_Witness ==
  /\ lastOp = "analyzeFrame"
  /\ lastAnalysis.tagDetected
  /\ Len(accepted) = 2
  /\ accepted[1] # accepted[2]
  /\ lastAnalysis.stability = 2 * (StabilityUnit \div 6)
  /\ VarianceStability(accepted) # lastAnalysis.stability

\* C9: shouldAutoCapture is true exactly when blurScore >= 0.15, a region was
\* detected and stability >= 0.50
C9_AutoCaptureReadiness ==
  lastOp = "analyzeFrame" =>
    autoCapture = (/\ lastAnalysis.blurScore >= 15
                   /\ lastAnalysis.tagBounds # NULL
                   /\ 2 * lastAnalysis.stability >= StabilityUnit)

\* ready at the sharpness boundary: blurScore exactly 0.15
C9_Witness ==
  /\ lastOp = "analyzeFrame"
  /\ autoCapture
  /\ lastAnalysis.blurScore = 15
  /\ 2 * lastAnalysis.stability < 2 * StabilityUnit

-----------------------------------------------------------------------------
(* Claims on the tag-region selection                                      *)

SameRectangle(a, b) ==
  a.x = b.x /\ a.y = b.y /\ a.width = b.width /\ a.height = b.height

OutsideConstraints(rect) ==
  \/ 100 * rect.width * rect.height < 3 * FrameWidth * FrameHeight
  \/ 100 * rect.width * rect.height > 90 * FrameWidth * FrameHeight
  \/ rect.width < rect.height
  \/ rect.width > 4 * rect.height

\* C10: a candidate whose area ratio is outside [0.03, 0.90] or whose aspect
\* ratio is outside [1.0, 4.0] is never the rectangle selected by the
\* rectangle stage
C10_RejectedNeverSelected ==
  stage # NULL =>
    \A i \in 1..Len(stage.rectangles) :
      OutsideConstraints(stage.rectangles[i]) =>
        \/ stage.bestRect = NULL
        \/ ~SameRectangle(stage.bestRect, stage.rectangles[i])

\* a rejected candidate that scores above zero was the only candidate, and
\* the stage selected nothing
C10_Witness ==
  /\ stage # NULL
  /\ stage.rectangles \in {<<TooWide>>, <<TooTall>>, <<TooSmall>>}
  /\ ScoreNum(stage.rectangles[1], FrameWidth, FrameHeight) > 0
  /\ stage.bestRect = NULL

WithinFrame(bounds) ==
  /\ bounds.x >= 0
  /\ bounds.y >= 0
  /\ bounds.x + bounds.width <= ScaleOf(bounds) * FrameWidth
  /\ bounds.y + bounds.height <= ScaleOf(bounds) * FrameHeight

\* C12 as stated: every non-null tagBounds returned by findTagBounds, from
\* the rectangle stage or from the edge-density fallback, lies within the
\* frame
C12_TagBoundsWithinFrame ==
  (stage # NULL /\ stage.tagBounds # NULL) => WithinFrame(stage.tagBounds)

-----------------------------------------------------------------------------
(* Claims on the consensus vote                                            *)

\* the values of field read in frames
ValuesRead(frames, field) == {frames[i].extraction[field] : i \in 1..Len(frames)}

\* sum of the confidences of the frames that read v in field
ConfidenceBehind(frames, field, v) ==
  SumSeq([i \in 1..Len(frames) |->
            IF frames[i].extraction[field] = v
            THEN frames[i].extraction.confidence ELSE 0])

\* sum of the confidences of all frames
TotalConfidence(frames) ==
  SumSeq([i \in 1..Len(frames) |-> frames[i].extraction.confidence])

\* winner is a value read in field with the highest summed confidence, and
\* confidence is that sum over the total confidence of the frames
WeightedWinner(frames, field, winner, confidence) ==
  /\ winner \in ValuesRead(frames, field) \ {NULL}
  /\ \A v \in ValuesRead(frames, field) \ {NULL} :
       ConfidenceBehind(frames, field, v) <= ConfidenceBehind(frames, field, winner)
  /\ confidence.num * TotalConfidence(frames)
       = ConfidenceBehind(frames, field, winner) * confidence.den

\* C13 as stated: the item number of the consensus is the item number with
\* the highest sum of frame confidences over the retained frames, and
\* itemNumberConfidence is that sum divided by the sum of the confidences of
\* all retained frames
C13_ItemNumberVote ==
  (vote # NULL /\ vote.frames # <<>>) =>
    WeightedWinner(vote.frames, "itemNumber",
                   vote.result.itemNumber, vote.result.itemNumberConfidence)

\* C13 amended: that holds when some retained frame has a confidence above
\* 0; when every retained frame has confidence 0 the item number is null
\* and itemNumberConfidence is 0
C13_ItemNumberVotePositive ==
  (vote # NULL /\ vote.frames # <<>>) =>
    IF TotalConfidence(vote.frames) > 0
    THEN WeightedWinner(vote.frames, "itemNumber",
                        vote.result.itemNumber, vote.result.itemNumberConfidence)
    ELSE /\ vote.result.itemNumber = NULL
         /\ vote.result.itemNumberConfidence.num = 0

\* item numbers [A, A, B] read with confidences [0.9, 0.8, 0.95]: A wins
\* with 1.7 / 2.65
C13_Witness ==
  /\ vote # NULL
  /\ Len(vote.frames) = 3
  /\ [i \in 1..3 |-> vote.frames[i].extraction.itemNumber]
       = <<Some("1234567"), Some("1234567"), Some("7654321")>>
  /\ [i \in 1..3 |-> vote.frames[i].extraction.confidence] = <<90, 80, 95>>
  /\ vote.result.itemNumber = Some("1234567")
  /\ vote.result.itemNumberConfidence = [num |-> 170, den |-> 265]

\* ending is '.' followed by the two cent digits of price (in cents)
TwoDigitEnding(ending, price) ==
  /\ Len(ending) = 3
  /\ ending[1] = "."
  /\ \E tens, units \in 0..9 :
       /\ ending[2] = DigitChars[tens + 1]
       /\ ending[3] = DigitChars[units + 1]
       /\ 10 * tens + units = price % 100

\* priceEnding is null when price is null and the two-digit ending of price
\* otherwise
EndingOfPrice(result) ==
  IF result.price = NULL
  THEN result.priceEnding = NULL
  ELSE /\ result.priceEnding # NULL
       /\ TwoDigitEnding(result.priceEnding.some, result.price.some)

\* C14 as stated: prices are grouped by their value in cents, the price of
\* the consensus is the group with the highest summed confidence,
\* priceConfidence is that sum over the total confidence of the retained
\* frames, and priceEnding is '.' followed by the two cent digits of the
\* winning price (null only when price is null)
C14_PriceVote ==
  (vote # NULL /\ vote.frames # <<>>) =>
    /\ WeightedWinner(vote.frames, "price",
                      vote.result.price, vote.result.priceConfidence)
    /\ EndingOfPrice(vote.result)

\* C14 amended: the vote is as stated when some retained frame has a
\* confidence above 0; when every retained frame has confidence 0 the price
\* is null and priceConfidence is 0; priceEnding is as stated in both cases
C14_PriceVotePositive ==
  (vote # NULL /\ vote.frames # <<>>) =>
    /\ IF TotalConfidence(vote.frames) > 0
       THEN WeightedWinner(vote.frames, "price",
                           vote.result.price, vote.result.priceConfidence)
       ELSE /\ vote.result.price = NULL
            /\ vote.result.priceConfidence.num = 0
    /\ EndingOfPrice(vote.result)

\* 17.05 won against another price: the ending is ".05"
C14_Witness ==
  /\ vote # NULL
  /\ Cardinality(ValuesRead(vote.frames, "price")) >= 2
  /\ vote.result.price = Some(1705)
  /\ vote.result.priceEnding = Some(<<".", "0", "5">>)
  /\ vote.result.priceConfidence.num < vote.result.priceConfidence.den

\* the weight of the candidate v in the vote on field: summed confidence
\* for the item number and the price, number of frames for the description
SupportOf(frames, field, v) ==
  IF field = "description"
  THEN Cardinality({i \in 1..Len(frames) : frames[i].extraction[field] = v})
  ELSE ConfidenceBehind(frames, field, v)

\* the candidates of the vote on field with the top weight
TopCandidates(frames, field) ==
  LET candidates == ValuesRead(frames, field) \ {NULL}
  IN {v \in candidates :
        \A w \in candidates : SupportOf(frames, field, w) <= SupportOf(frames, field, v)}

\* position in frames of the first frame that read v in field
FirstSeen(frames, field, v) ==
  CHOOSE i \in 1..Len(frames) :
    /\ frames[i].extraction[field] = v
    /\ \A j \in 1..(i - 1) : frames[j].extraction[field] # v

\* winner is the top candidate that appears first in frames
FirstSeenWins(frames, field, winner) ==
  /\ winner \in TopCandidates(frames, field)
  /\ \A v \in TopCandidates(frames, field) :
       FirstSeen(frames, field, winner) <= FirstSeen(frames, field, v)

VoteFields == {"itemNumber", "price", "description"}

\* C15 as stated: in each of the three votes, when two candidates have the
\* same top weight the one that appears first in the retained list wins
C15_TieFirstSeenWins ==
  vote # NULL =>
    \A field \in VoteFields :
      Cardinality(TopCandidates(vote.frames, field)) >= 2 =>
        FirstSeenWins(vote.frames, field, vote.result[field])

\* C15 amended: that holds when the shared top weight is above 0; when it
\* is 0, which takes retained frames that all have confidence 0, the vote
\* has no winner and the field is null
C15_PositiveTieFirstSeenWins ==
  vote # NULL =>
    \A field \in VoteFields :
      LET top == TopCandidates(vote.frames, field)
      IN Cardinality(top) >= 2 =>
           IF \E v \in top : SupportOf(vote.frames, field, v) > 0
           THEN FirstSeenWins(vote.frames, field, vote.result[field])
           ELSE vote.result[field] = NULL

\* two item numbers tied at 0.9 and the one read first, "7654321", won
C15_Witness ==
  /\ vote # NULL
  /\ Len(vote.frames) = 2
  /\ vote.frames[1].extraction.itemNumber = Some("7654321")
  /\ vote.frames[2].extraction.itemNumber = Some("1234567")
  /\ vote.frames[1].extraction.confidence = 90
  /\ vote.frames[2].extraction.confidence = 90
  /\ vote.result.itemNumber = Some("7654321")

\* the retained frames that read an asterisk
AsteriskFrames(frames) ==
  {i \in 1..Len(frames) : frames[i].extraction.hasAsterisk}

\* C16: hasAsterisk is true exactly when strictly more than half of the
\* retained frames read an asterisk, whatever their confidences
C16_AsteriskStrictMajority ==
  vote # NULL =>
    (vote.result.hasAsterisk <=>
       2 * Cardinality(AsteriskFrames(vote.frames)) > Len(vote.frames))

\* an even split where the frame with the asterisk has the higher
\* confidence: hasAsterisk is false
C16_Witness ==
  /\ vote # NULL
  /\ Len(vote.frames) = 2
  /\ Cardinality(AsteriskFrames(vote.frames)) = 1
  /\ \E i \in AsteriskFrames(vote.frames) :
       \A j \in 1..2 \ {i} :
         vote.frames[i].extraction.confidence > vote.frames[j].extraction.confidence
  /\ ~vote.result.hasAsterisk

-----------------------------------------------------------------------------
(* Claims on the consensus engine                                          *)

\* s is the tail of t
IsSuffix(s, t) ==
  /\ Len(s) <= Len(t)
  /\ \A i \in 1..Len(s) : s[i] = t[Len(t) - Len(s) + i]

\* C2: right after an addFrame call that retains its extraction the retained
\* list has at most 5 entries, they are the most recently added ones, and
\* every one of them is less than 3000 ms older than this add
C2_RetainedWindow ==
  lastOp = "addFrameRetained" =>
    /\ Len(framesRef) <= 5
    /\ IsSuffix(framesRef, completed)
    /\ \A i \in 1..Len(framesRef) : now - framesRef[i].timestamp < 3000

\* an extraction half the window old was retained by the add that dropped
\* one that had reached the age of the window
C2_Witness ==
  /\ lastOp = "addFrameRetained"
  /\ Len(framesRef) < Len(completed)
  /\ Len(framesRef) \in 2..4
  /\ now - completed[1].timestamp >= 3000
  /\ now - framesRef[1].timestamp > 0

\* C3 as stated: an extraction that arrives after reset() for a call made
\* before it is discarded; the retained list holds only extractions of calls
\* made since the last reset, and getResult() is null until one of those
\* completes
C3_StaleResultDiscarded ==
  /\ \A i \in 1..Len(framesRef) : ~framesRef[i].stale
  /\ getResult # NULL =>
       \E i \in 1..Len(completed) : ~completed[i].stale

\* C4: with several addFrame calls in flight completing in any order, every
\* successful extraction is appended once, timestamped at its completion and
\* retained right after its append; the retained list is the history of
\* appends cut to the 3-second window and to 5 entries, and the stored
\* result is the consensus of the retained list
C4_NoLostUpdate ==
  LET n == Len(completed)
      fresh == SelectSeq(completed,
                 LAMBDA f : completed[n].timestamp - f.timestamp < 3000)
  IN /\ framesRef = IF n = 0 THEN <<>> ELSE LastN(fresh, 5)
     /\ \A i, j \in 1..Len(framesRef) :
          framesRef[i].call = framesRef[j].call => i = j
     /\ lastOp = "addFrameRetained" =>
          /\ framesRef # <<>>
          /\ framesRef[Len(framesRef)] = completed[n]
          /\ framesRef[Len(framesRef)].timestamp = now
     /\ getResult = IF n = 0 THEN NULL ELSE calculateConsensus(framesRef)

\* two calls were in flight together and the later one completed first
C4_Witness ==
  /\ lastOp = "addFrameRetained"
  /\ Len(framesRef) >= 2
  /\ framesRef[Len(framesRef)].call < framesRef[Len(framesRef) - 1].call

\* C18: hasEnoughFrames() is true exactly when two or more extractions are
\* retained; it is false right after reset() and stays false until two
\* more successful extractions have been added
C18_EnoughFramesIsTwoRetained ==
  /\ hasEnoughFrames <=>
        \E i, j \in DOMAIN framesRef : i # j
  /\ lastOp = "reset" => ~hasEnoughFrames
  /\ hasEnoughFrames => Len(completed) >= 2

\* the first call's frame was retained, a reset dropped it, and two later
\* successful extractions made hasEnoughFrames() true again
C18_Witness ==
  /\ hasEnoughFrames
  /\ Len(completed) = 2
  /\ completed[1].call >= 3
  /\ Len(framesRef) = 2

\* some item number or price of frames has at least MIN_CONSENSUS of the
\* total confidence of frames behind it
ReachesConsensus(frames) ==
  /\ TotalConfidence(frames) > 0
  /\ \E field \in {"itemNumber", "price"} :
       \E v \in ValuesRead(frames, field) \ {NULL} :
         100 * ConfidenceBehind(frames, field, v)
           >= MIN_CONSENSUS * TotalConfidence(frames)

\* C19: an addFrame whose extraction succeeded returns true, and sets
\* hasResult, exactly when the item number or the price of the frames
\* retained after the add reaches MIN_CONSENSUS; an addFrame whose
\* extraction failed returns false
C19_ReturnsConsensusReached ==
  /\ lastOp = "addFrameRetained" =>
       /\ lastReturn = "true" <=> ReachesConsensus(framesRef)
       /\ hasResult <=> ReachesConsensus(framesRef)
       /\ lastReturn \in {"true", "false"}
  /\ lastOp = "addFrameRejected" => lastReturn = "false"

\* a successful extraction was added and addFrame returned false: the two
\* retained frames disagree and neither side has 0.6 of the confidence
C19_Witness ==
  /\ lastOp = "addFrameRetained"
  /\ Len(framesRef) = 2
  /\ lastReturn = "false"
  /\ ~hasResult
  /\ resultsRef # NULL
  /\ resultsRef.itemNumber # NULL

\* C20 as stated: an addFrame that returns true leaves hasEnoughFrames()
\* true
C20_ConfidentOnlyWithEnoughFrames ==
  (lastOp = "addFrameRetained" /\ lastReturn = "true") => hasEnoughFrames

\* C21: right after reset() the engine holds no evidence, whatever was
\* added before: no retained frame, getResult() null, frameCount 0,
\* hasResult false, hasEnoughFrames() false
C21_ResetClearsEvidence ==
  lastOp = "reset" =>
    /\ framesRef = <<>>
    /\ getResult = NULL
    /\ frameCount = 0
    /\ ~hasResult
    /\ ~hasEnoughFrames

\* a reset that came after at least two addFrame calls, the last completed
\* one having returned true
C21_Witness ==
  /\ lastOp = "reset"
  /\ nextCallId >= 3
  /\ lastReturn = "true"
  /\ calls = {}

\* C22: an addFrame call whose extraction is not successful returns false
\* and leaves the retained list and the stored consensus result as they were
C22_FailedExtractionIgnored ==
  [][lastOp' = "addFrameRejected" =>
       /\ lastReturn' = "false"
       /\ framesRef' = framesRef
       /\ resultsRef' = resultsRef]_vars

\* a failed extraction arrived while a frame and a result were held
C22_Witness ==
  /\ lastOp = "addFrameRejected"
  /\ lastReturn = "false"
  /\ Len(framesRef) >= 1
  /\ resultsRef # NULL

-----------------------------------------------------------------------------
(* Claims on the extraction functions                                      *)

\* extractPriceTag was called and the recognizer delivered a text
TagRead == ocr # NULL /\ ocr.fn = "extractPriceTag" /\ ocr.parts # NULL

\* the extraction carries nothing: no success, confidence 0, every field
\* null, no asterisk
CarriesNothing(extraction) ==
  /\ ~extraction.success
  /\ extraction.confidence = 0
  /\ extraction.itemNumber = NULL
  /\ extraction.price = NULL
  /\ extraction.priceEnding = NULL
  /\ extraction.unitPrice = NULL
  /\ extraction.unitMeasure = NULL
  /\ extraction.description = NULL
  /\ ~extraction.hasAsterisk

\* C23 as stated: extractPriceTag never rejects; when a step throws it
\* resolves to an extraction that carries nothing and whose error is the
\* text of the failure
C23_NeverRejects ==
  (ocr # NULL /\ ocr.fn = "extractPriceTag") =>
    /\ ocr.result.settled = "resolved"
    /\ Throws(ocr.recognition) =>
         /\ CarriesNothing(ocr.result.value)
         /\ ocr.result.value.error = Some(ocr.recognition.thrown.text)
    /\ (TagRead /\ ocr.result.value.error # NULL) =>
         CarriesNothing(ocr.result.value)

\* C23 amended: the error is the message of the thrown Error, and the
\* fixed text 'OCR failed' when the thrown value is not an Error
C23_NeverRejectsErrorOrFixedText ==
  (ocr # NULL /\ ocr.fn = "extractPriceTag") =>
    /\ ocr.result.settled = "resolved"
    /\ Throws(ocr.recognition) =>
         /\ CarriesNothing(ocr.result.value)
         /\ ocr.result.value.error =
              Some(IF ocr.recognition.thrown.isError
                   THEN ocr.recognition.thrown.text ELSE "OCR failed")
    /\ (TagRead /\ ocr.result.value.error # NULL) =>
         CarriesNothing(ocr.result.value)

\* the recognizer rejected with a plain string and extractPriceTag resolved
\* to an extraction with the fixed error text
C23_Witness ==
  /\ ocr # NULL
  /\ ocr.fn = "extractPriceTag"
  /\ Throws(ocr.recognition)
  /\ ~ocr.recognition.thrown.isError
  /\ ocr.result.settled = "resolved"
  /\ ocr.result.value.error = Some("OCR failed")

\* unit price and unit a unit-price part stands for
ExpectedUnit ==
  ("0.25/OZ" :> [num |-> 25, den |-> 100, measure |-> "oz"]) @@
  ("1,50 / lb" :> [num |-> 150, den |-> 100, measure |-> "lb"])

\* the extraction of the same tag read without its unit price
WithoutUnitPrice ==
  extractPriceTag([text |-> TextOf([ocr.parts EXCEPT !.unit = ""]),
                   confidence |-> ocr.recognition.confidence]).value

\* C24 as stated: for a text with a unit price the extraction has that
\* number as unitPrice and the lowercased unit as unitMeasure, and success,
\* itemNumber and price are what they are without the unit price
C24_UnitPriceExtracted ==
  (TagRead /\ ocr.parts.unit # "") =>
    LET extraction == ocr.result.value
        expected == ExpectedUnit[ocr.parts.unit]
    IN /\ extraction.unitPrice # NULL
       /\ extraction.unitPrice.some.num * expected.den
            = expected.num * extraction.unitPrice.some.den
       /\ extraction.unitMeasure = Some(expected.measure)
       /\ extraction.success = WithoutUnitPrice.success
       /\ extraction.itemNumber = WithoutUnitPrice.itemNumber
       /\ extraction.price = WithoutUnitPrice.price

\* positions where a maximal digit run of 6 to 8 digits starts
DigitRunStarts(text) ==
  {i \in 1..Len(text) :
     /\ CharAt(text, i) \in DigitClass
     /\ i = 1 \/ CharAt(text, i - 1) \notin DigitClass
     /\ RunLength(text, i, DigitClass, Len(text)) \in 6..8}

\* those of them that have no letter and no underscore next to the run
StandaloneRunStarts(text) ==
  {i \in DigitRunStarts(text) :
     LET n == RunLength(text, i, DigitClass, Len(text))
     IN /\ i = 1 \/ CharAt(text, i - 1) \notin WordClass
        /\ i + n > Len(text) \/ CharAt(text, i + n) \notin WordClass}

\* the first run of exactly 7 digits among the runs starting at starts,
\* else the first run, else null
PreferredRun(text, starts) ==
  LET run(i) == SubSeq(text, i, i + RunLength(text, i, DigitClass, Len(text)) - 1)
      sevens == {i \in starts : Len(run(i)) = 7}
  IN IF sevens # {} THEN Some(run(MinOf(sevens)))
     ELSE IF starts # {} THEN Some(run(MinOf(starts)))
     ELSE NULL

\* C25 as stated: extractItemNumber returns the first run of exactly 7
\* digits among the maximal digit runs of 6 to 8 digits, else the first of
\* these runs, else null
C25_ItemNumberPrefersSeven ==
  (ocr # NULL /\ ocr.fn = "extractItemNumber") =>
    ocr.result = PreferredRun(ocr.text, DigitRunStarts(ocr.text))

\* C25 amended: the same over the runs that have no letter and no
\* underscore next to them
C25_ItemNumberPrefersSevenStandalone ==
  (ocr # NULL /\ ocr.fn = "extractItemNumber") =>
    ocr.result = PreferredRun(ocr.text, StandaloneRunStarts(ocr.text))

\* an 8-digit run comes first and the 7-digit run behind it is returned
C25_Witness ==
  /\ ocr # NULL
  /\ ocr.fn = "extractItemNumber"
  /\ ocr.text = "99887766 1234567"
  /\ ocr.result = Some("1234567")

\* C26: extractPrice takes, among the price matches of the text, the one
\* with the largest dollar part, the earliest when dollar parts are equal;
\* price is its dollars.cents and priceEnding '.' and its two cent digits;
\* both are null when nothing matches
C26_LargestDollarPrice ==
  (ocr # NULL /\ ocr.fn = "extractPrice") =>
    LET matches == PriceMatches(ocr.text, 1)
        dollars(k) == ParseInt(matches[k].dollars)
    IN IF matches = <<>>
       THEN ocr.result.price = NULL /\ ocr.result.priceEnding = NULL
       ELSE \E k \in 1..Len(matches) :
              /\ \A j \in 1..Len(matches) : dollars(j) <= dollars(k)
              /\ \A j \in 1..(k - 1) : dollars(j) < dollars(k)
              /\ ocr.result.price =
                   Some(100 * dollars(k) + ParseInt(matches[k].cents))
              /\ ocr.result.priceEnding = Some("." \o matches[k].cents)
              /\ Len(matches[k].cents) = 2

\* the regular price of 12.99 wins over the special price of 9.97
C26_Witness ==
  /\ ocr # NULL
  /\ ocr.fn = "extractPrice"
  /\ ocr.text = "REG $12.99 SPECIAL $9.97"
  /\ ocr.result.price = Some(1299)
  /\ ocr.result.priceEnding = Some(".99")

\* C27 as stated: when the parsing threw nothing, success is true exactly
\* when itemNumber and price are both non-null, and confidence is the
\* engine confidence / 100, halved if itemNumber is null, times 0.3 if
\* price is null, rounded to two decimals
C27_SuccessAndConfidence ==
  (TagRead /\ ocr.result.value.error = NULL) =>
    LET extraction == ocr.result.value
    IN /\ extraction.success <=>
            (extraction.itemNumber # NULL /\ extraction.price # NULL)
       /\ extraction.confidence =
            RoundHalfUp(ocr.recognition.confidence
                          * (IF extraction.itemNumber = NULL THEN 1 ELSE 2)
                          * (IF extraction.price = NULL THEN 3 ELSE 10), 20)

\* C28 as stated: hasAsterisk is true exactly for a text with an asterisk
\* or one of its confusable forms
C28_TolerantAsterisk ==
  (TagRead /\ ocr.result.value.error = NULL) =>
    (ocr.result.value.hasAsterisk <=> TolerantAsteriskPattern(ocr.recognition.text))

\* cents and ending a price part stands for
ExpectedPrice ==
  ("16.99" :> [cents |-> 1699, ending |-> ".99"]) @@
  ("$12.99" :> [cents |-> 1299, ending |-> ".99"]) @@
  ("0.00" :> [cents |-> 0, ending |-> ".00"])

\* the uppercase words of 4+ letters of the words part that are neither
\* garbage nor stop-listed, in order
ProductWords(words) ==
  LET all == ClassRuns(words, CharsOf(UpperLetters), 4, 1)
  IN SelectSeq(all, LAMBDA w : ~isGarbageWord(w) /\ toLowerCase(w) \notin skipWords)

\* C29: for a text of uppercase product words, one 7-digit run, one price
\* and an asterisk, success is true, itemNumber is the run, price and
\* priceEnding come from the price, hasAsterisk is true and the description
\* is the first five product words in order
C29_TagExample ==
  (/\ TagRead
   /\ ocr.parts.words # ""
   /\ ocr.parts.item = "1234567"
   /\ ocr.parts.price # ""
   /\ ocr.parts.unit = ""
   /\ ocr.parts.marker = "*") =>
    LET extraction == ocr.result.value
        expected == ExpectedPrice[ocr.parts.price]
        words == ProductWords(ocr.parts.words)
    IN /\ extraction.success
       /\ extraction.itemNumber = Some(ocr.parts.item)
       /\ extraction.price = Some(expected.cents)
       /\ extraction.priceEnding = Some(expected.ending)
       /\ extraction.hasAsterisk
       /\ words # <<>> =>
            extraction.description = Some(JoinWith(words, Min(5, Len(words)), " "))

\* the example tag: KIRKLAND and OLIVE make the description, OIL is too
\* short
C29_Witness ==
  /\ TagRead
  /\ ocr.recognition.text = "KIRKLAND OLIVE OIL 1234567 16.99 *"
  /\ ocr.result.value.success
  /\ ocr.result.value.itemNumber = Some("1234567")
  /\ ocr.result.value.price = Some(1699)
  /\ ocr.result.value.priceEnding = Some(".99")
  /\ ocr.result.value.hasAsterisk
  /\ ocr.result.value.description = Some("KIRKLAND OLIVE")

-----------------------------------------------------------------------------
(* Claims on best-frame selection                                          *)

\* the frames in a buffer
FramesIn(buf) == {buf[i] : i \in 1..Len(buf)}

\* C30: getBestFrame returns null on an empty buffer; otherwise a buffered
\* frame f such that no buffered frame has a tag detected while f has none,
\* and no buffered frame with the same tagDetected has a higher blurScore;
\* the buffer is left as it was
C30_BestFrameRanking ==
  (picked # NULL /\ picked.fn = "getBestFrame") =>
    /\ frameBuffer = picked.buffer
    /\ picked.buffer = <<>> => picked.frame = NULL
    /\ picked.buffer # <<>> =>
         /\ picked.frame \in FramesIn(picked.buffer)
         /\ \A g \in FramesIn(picked.buffer) :
              /\ ~(g.analysis.tagDetected /\ ~picked.frame.analysis.tagDetected)
              /\ g.analysis.tagDetected = picked.frame.analysis.tagDetected
                   => g.analysis.blurScore <= picked.frame.analysis.blurScore

\* the frame returned has a tag detected and is not the sharpest of the
\* buffer: a sharper frame without a tag was passed over
C30_Witness ==
  /\ picked # NULL
  /\ picked.fn = "getBestFrame"
  /\ picked.buffer # <<>>
  /\ picked.frame.analysis.tagDetected
  /\ \E g \in FramesIn(picked.buffer) :
       /\ ~g.analysis.tagDetected
       /\ g.analysis.blurScore > picked.frame.analysis.blurScore
  /\ \E g \in FramesIn(picked.buffer) :
       /\ g.analysis.tagDetected
       /\ g.analysis.blurScore < picked.frame.analysis.blurScore

\* the combined score of the burst ranking, in hundredths
CombinedScore(frame) ==
  frame.analysis.blurScore + (IF frame.analysis.tagDetected THEN 50 ELSE 0)

\* C31: getBestFrames(n) returns min(n, buffer size) distinct buffered
\* frames in non-increasing order of blurScore + (tagDetected ? 0.5 : 0),
\* every returned frame scores at least as high as every frame not
\* returned, and the buffer keeps its contents and order
C31_BestFramesTopN ==
  (picked # NULL /\ picked.fn = "getBestFrames") =>
    LET frames == picked.frames
        returned == FramesIn(frames)
    IN /\ frameBuffer = picked.buffer
       /\ Len(frames) = Min(picked.count, Len(picked.buffer))
       /\ returned \subseteq FramesIn(picked.buffer)
       /\ Cardinality(returned) = Len(frames)
       /\ \A i \in 1..(Len(frames) - 1) :
            CombinedScore(frames[i]) >= CombinedScore(frames[i + 1])
       /\ \A f \in returned, g \in FramesIn(picked.buffer) \ returned :
            CombinedScore(f) >= CombinedScore(g)

\* two of four buffered frames were asked for; a frame with a tag was
\* returned ahead of a sharper frame without one, which was left out
C31_Witness ==
  /\ picked # NULL
  /\ picked.fn = "getBestFrames"
  /\ picked.count = 2
  /\ Len(picked.buffer) = 4
  /\ Len(picked.frames) = 2
  /\ \E f \in FramesIn(picked.frames), g \in FramesIn(picked.buffer) \ FramesIn(picked.frames) :
       /\ f.analysis.tagDetected
       /\ ~g.analysis.tagDetected
       /\ g.analysis.blurScore > f.analysis.blurScore

-----------------------------------------------------------------------------
(* Claims on the burst capture path                                        *)

\* the burst ended with a record handed to the decision layer
BurstFinalized == burst # NULL /\ burst.outcome.state = "result"

\* the successful extractions of the burst as the consensus engine retains
\* them
BurstFrames ==
  LET valid == SelectSeq(burst.ocrResults, ValidResult)
  IN [i \in 1..Len(valid) |-> [extraction |-> valid[i], timestamp |-> i]]

\* C32 as stated: the record of a burst carries the item number and the
\* price that win the confidence-weighted vote of the consensus engine
\* over the burst's successful extractions
C32_BurstCarriesWeightedVote ==
  BurstFinalized =>
    /\ burst.outcome.record.some.itemNumber = calculateConsensus(BurstFrames).itemNumber
    /\ burst.outcome.record.some.price = calculateConsensus(BurstFrames).price

\* C33 as stated: in every record of a burst, priceEnding is '.' followed
\* by the two cent digits of the record's price
C33_BurstEndingMatchesPrice ==
  BurstFinalized => EndingOfPrice(burst.outcome.record.some)

-----------------------------------------------------------------------------
(* Claims on the camera component                                          *)

\* C5 as stated: every doCapture attempt that got past its entry guard and
\* has completed, with a capture or with an error, leaves none of the frames
\* that were buffered before the attempt in the frame buffer
C5_BufferClearedAfterCapture ==
  lastOp = "doCaptureDone" => BufferedIds \cap finished.buffered = {}

-----------------------------------------------------------------------------
(* Claims on the analysis of the pixels of a frame                         *)

\* the canvases that are uniform, free of edges, or smaller than 3 pixels
\* on a side
DegenerateImages ==
  {i \in 1..Len(Images) :
     \/ Images[i].width < 3
     \/ Images[i].height < 3
     \/ \A p \in DOMAIN Images[i].data : Images[i].data[p] = Images[i].data[0]
     \/ detectEdges(toGrayscale(Images[i]), Images[i].width, Images[i].height) = {}}

\* C34: analyzeFrame on a degenerate frame returns isSharp false,
\* tagDetected false, tagBounds null, and blurScore and stability within
\* [0, 1]
C34_DegenerateFrameAnalysis ==
  (drawn # NULL /\ drawn.image \in DegenerateImages) =>
    /\ ~lastAnalysis.isSharp
    /\ ~lastAnalysis.tagDetected
    /\ lastAnalysis.tagBounds = NULL
    /\ lastAnalysis.blurScore \in 0..100
    /\ lastAnalysis.stability \in 0..StabilityUnit

-----------------------------------------------------------------------------
(* Claims on the edge-density fallback                                     *)

\* the 4-connected sets of dense cells
DenseRegions(dense) == {FloodFill(dense, {c}) : c \in dense}

\* the largest of them
LargestRegions(dense) ==
  {r \in DenseRegions(dense) :
     \A q \in DenseRegions(dense) : Cardinality(q) <= Cardinality(r)}

\* the bounding box of a region in units of 1/20 pixel, padded on the left
\* and right by padX and at the top and bottom by padY, kept at the origin
\* and no larger than the frame
BoxPaddedBy(comp, padX, padY) ==
  LET Box(region) ==
        [x |-> Max(0, 2 * region.minX * FrameWidth - padX),
         y |-> Max(0, 2 * region.minY * FrameHeight - padY),
         width |-> Min(20 * FrameWidth,
                       2 * (region.maxX - region.minX + 1) * FrameWidth + 2 * padX),
         height |-> Min(20 * FrameHeight,
                        2 * (region.maxY - region.minY + 1) * FrameHeight + 2 * padY),
         confidence |-> [num |-> Cardinality(comp), den |-> 100],
         scale |-> 20]
  IN Box(RegionOf(comp))

\* the fallback goes by the largest region, with the given padding
FallbackReturns(padX, padY) ==
  stage # NULL =>
    /\ IF \A r \in DenseRegions(stage.dense) : Cardinality(r) < 4
       THEN stage.densityResult = NULL
       ELSE \E r \in LargestRegions(stage.dense) :
              stage.densityResult = BoxPaddedBy(r, padX, padY)
    /\ LET Once(scanned) ==
             \A c \in stage.dense :
               Cardinality({n \in 1..Len(scanned) : c \in scanned[n]}) = 1
       IN Once(ScannedRegions(stage.dense, 0, {}))

-----------------------------------------------------------------------------
(* Claims on auto-capture readiness                                        *)

\* C37: shouldAutoCapture is true for a frame only if that frame and the
\* two analyzed frames before it all had a detected region, with no
\* resetStabilityTracking call in between
C37_AutoCaptureNeedsThreeFrames ==
  (lastOp = "analyzeFrame" /\ autoCapture) => Len(accepted) >= STABILITY_BUFFER_SIZE

\* the third frame with a region after a reset or a frame without one is
\* ready for auto-capture
C37_Witness ==
  /\ lastOp = "analyzeFrame"
  /\ autoCapture
  /\ Len(accepted) = STABILITY_BUFFER_SIZE

-----------------------------------------------------------------------------
(* Claims on the result of the consensus engine                            *)

\* the retained frames the recognizer had some confidence in
ConfidentFrames(frames) ==
  {frames[i].extraction : i \in {j \in 1..Len(frames) : frames[j].extraction.confidence > 0}}

\* value is a value read in field, its confidence lies in (0, 1] and is 1
\* exactly when the confident frames agree on field
FieldBacked(frames, field, value, confidence) ==
  /\ value # NULL
  /\ value \in ValuesRead(frames, field)
  /\ confidence.num > 0
  /\ confidence.num <= confidence.den
  /\ confidence.num = confidence.den
       <=> \A a, b \in ConfidentFrames(frames) : a[field] = b[field]

\* C38: whenever the engine retains at least one frame with confidence
\* above 0, the item number and the price of its result are not null and
\* read in some retained frame, their confidences lie in (0, 1], and the
\* confidence of a field is 1 exactly when all retained frames with
\* confidence above 0 agree on it
C38_ResultBackedByRetainedFrames ==
  ConfidentFrames(framesRef) # {} =>
    /\ resultsRef # NULL
    /\ FieldBacked(framesRef, "itemNumber", resultsRef.itemNumber,
                   resultsRef.itemNumberConfidence)
    /\ FieldBacked(framesRef, "price", resultsRef.price, resultsRef.priceConfidence)

\* frames that agree on the item number and not on the price are retained
\* next to one without confidence
C38_Witness ==
  /\ Cardinality(ConfidentFrames(framesRef)) >= 2
  /\ \E i \in 1..Len(framesRef) : framesRef[i].extraction.confidence = 0
  /\ resultsRef # NULL
  /\ resultsRef.itemNumberConfidence.num = resultsRef.itemNumberConfidence.den
  /\ resultsRef.priceConfidence.num < resultsRef.priceConfidence.den

-----------------------------------------------------------------------------
(* Claims on concurrent captures                                           *)

\* C39: at most one capture is in progress in SmartCamera at a time: a
\* capture triggered by the countdown, the burst trigger or the button
\* while an earlier doCapture has not finished is ignored, so no two
\* captures in progress work on the same buffered frames
C39_OneCaptureInProgress == Cardinality(captures) <= 1

-----------------------------------------------------------------------------
(* Claims on the background sync hook                                      *)

\* C40: at most one background sync runs at a time; a performSync call
\* made while another is in progress returns the failure 'Sync already in
\* progress' without starting an upload; the in-progress flag is cleared
\* after every sync, whether it returned or threw, and set while one runs
C40_OneSyncAtATime ==
  /\ Cardinality(syncCalls) <= 1
  /\ syncInProgressRef <=> syncCalls # {}
  /\ (syncReturned # NULL /\ syncReturned.running > 0) =>
       /\ syncReturned.result = SyncRefused("Sync already in progress")
       /\ syncReturned.uploads = 0

\* after a sync that threw, a second sync is running and a third call has
\* been turned away
C40_Witness ==
  /\ lastSyncResult # NULL
  /\ lastSyncResult.some.thrown
  /\ Cardinality(syncCalls) = 1
  /\ syncReturned # NULL
  /\ syncReturned.running = 1
  /\ syncReturned.result = SyncRefused("Sync already in progress")

====
